---- MODULE Spec2Model ----
(***************************************************************************)
(* Tarp (src/Tarp/Tarp.h, OpenGL implementation): the clipping engine of   *)
(* the context.  The state is the context's clipping stack, its two clip   *)
(* stencil planes, the render caches (user caches, the path's internal     *)
(* cache and the context's clipping-cache pool) and one path.              *)
(*                                                                         *)
(* Geometry is kept in device space: a render cache's fill geometry is the *)
(* set of pixels its triangle fans cover, a stencil plane is the set of    *)
(* pixels whose bit of that plane is 1.  The transform of the context is   *)
(* fixed.                                                                  *)
(***************************************************************************)
EXTENDS Integers, Sequences, FiniteSets, TLC

\* ---------------------------------------------------------------- bounds
\* Nesting depth explored by SpecNest and SpecFrame.
MaxNest == 3
\* Nesting depth explored by Spec, where caches are rebuilt while on the stack.
MaxNestRebuilt == 2
\* endClipping calls counted per frame by SpecFrame.
MaxEndsPerFrame == 3
\* Contours per path, segments per contour, segments a caller passes at once
\* and curves of one arc explored by SpecPath.
MaxContours == 2
MaxSegments == 2
MaxInputSegments == 2
MaxArcDivs == 1
MaxID == 4
MaxTransformChanges == 1
MaxStops == 2
MaxScaleChanges == 2
MaxBisections == 6
MaxPolylineSegments == 2
MaxDashCount == 2
MaxDashLength == 2
MaxDashOffset == 3
MaxEvents == 22

\* ------------------------------------------------------- program constants
TARP_GL_MAX_CLIPPING_STACK_DEPTH == 64
TARP_MAX_CURVE_SUBDIVISIONS == 16
kTpGLFillRasterStencilPlane == 31
kTpGLClippingStencilPlaneOne == 32
kTpGLClippingStencilPlaneTwo == 64

\* The pixels of the framebuffer, and the one user render cache.
Pixels == {1, 2}
ClipPlanes == {kTpGLClippingStencilPlaneOne, kTpGLClippingStencilPlaneTwo}
FillRules == {"kTpFillRuleEvenOdd", "kTpFillRuleNonZero"}
PaintTypes == {"kTpPaintTypeNone", "kTpPaintTypeColor"}
\* The styles a caller passes: fill rule and fill paint (no stroke).
Styles == [fillRule : FillRules, fill : PaintTypes]

\* Render cache handles: user caches, the path's internal cache, and the
\* context's pool slot of each stack level (C index 0..63).
UserCaches == {<<"user", 1>>}
PathCache == <<"path", 0>>
PoolSlot(i) == <<"pool", i>>
PoolSlots == 0..(TARP_GL_MAX_CLIPPING_STACK_DEPTH - 1)
OwnedCaches == UserCaches \cup {PathCache}

VARIABLES
    clippingStack,            \* ctx->clippingStack[0..depth-1], as a sequence of handles
    clippingStackDepth,       \* ctx->clippingStackDepth
    currentClipStencilPlane,  \* ctx->currentClipStencilPlane
    bCanSwapStencilPlanes,    \* ctx->bCanSwapStencilPlanes
    renderCaches,             \* contents of the user caches and of the path's cache
    clippingRenderCaches,     \* ctx->clippingRenderCaches: contents of the pool slots
                              \* written so far (the others are as created)
    stencil,                  \* clip planes of the stencil buffer: plane -> pixels whose bit is 1
    pathContours,             \* the path's geometry: covered pixels, {} = no contours
    bPathGeometryDirty,       \* path->bPathGeometryDirty (and the contour's bDirty)
    pathRenderCache,          \* path->renderCache != NULL
    stackOverrun,             \* a store past clippingStack[63] happened
    glTrace,                  \* history: the last call, if it reached GL: its name, then its
                              \* stencil clears, clip mask generations and fill raster draws
    pushedMasks,              \* history: per stack level, the cache contents at push time
    frame,                    \* history (SpecFrame): the frame's state, its depth after
                              \* tpPrepareDrawing and its counts of clipping calls
    paths,                    \* the paths in full: handle -> _tpGLPath (contours, segments,
                              \* current contour, dirty flags), NoPath if not created
    errorMessage,             \* the error string tpErrorMessage returns
    lastReturn,               \* history: the last path call, what it was given, what it returned
    strayStore,               \* a store outside a contour's segment array happened
    transform,                \* ctx->transform
    transformScale,           \* ctx->transformScale
    transformID,              \* ctx->transformID
    projection,               \* ctx->projection
    projectionID,             \* ctx->projectionID
    bTransformProjDirty,      \* ctx->bTransformProjDirty
    userCache,                \* the geometry of a render cache the user made
    stops,                    \* the gradient's stops, a sequence of (offset, color)
    gradientDirty,            \* the gradient's bDirty
    finalizedFrom,            \* history: the stops the last finalization was given
    flatten,                  \* _tpGLFlattenCurve: its stack and stackIndex, and the curve it
                              \* emitted last
    dasher                    \* _tpGLRenderCacheContourDashedStrokeGeometry: the contour and
                              \* dash array it is given, its locals, and the geometry it made

ctxVars == <<clippingStack, clippingStackDepth, currentClipStencilPlane, bCanSwapStencilPlanes>>
pathVars == <<pathContours, bPathGeometryDirty, pathRenderCache>>
histVars == <<glTrace, pushedMasks>>
clipVars == <<ctxVars, renderCaches, clippingRenderCaches, stencil, pathVars, stackOverrun, histVars>>
builderVars == <<paths, errorMessage, lastReturn, strayStore>>
xfVars ==
    <<transform, transformScale, transformID, projection, projectionID, bTransformProjDirty>>
cacheVars == <<userCache>>
gradVars == <<stops, gradientDirty, finalizedFrom>>
geomVars == <<xfVars, cacheVars, gradVars>>
strokeVars == <<flatten, dasher>>
vars == <<clipVars, frame, builderVars, geomVars, strokeVars>>

\* ------------------------------------------------------------ render cache
\* tpRenderCacheCreate: no contours, no geometry.
NewRenderCache ==
    [contours |-> 0, cover |-> {}, fillRule |-> "kTpFillRuleEvenOdd",
     fill |-> "kTpPaintTypeColor"]

\* The contents of a cache (m holds the caches: m.rc and the pool m.pool).
CacheContents(m, cache) ==
    IF cache[1] = "pool"
    THEN IF cache[2] \in DOMAIN m.pool THEN m.pool[cache[2]] ELSE NewRenderCache
    ELSE m.rc[cache]

\* _tpGLRenderCacheCopyTo, the fields the fill pipeline reads.
RenderCacheCopyTo(from, to) ==
    [to EXCEPT !.contours = from.contours, !.cover = from.cover,
               !.fillRule = from.fillRule, !.fill = from.fill]

\* ------------------------------------------------------------ stencil/draw
\* The plane a draw tests against: the one that is not the current one.
OtherClipPlane(plane) ==
    IF plane = kTpGLClippingStencilPlaneOne
    THEN kTpGLClippingStencilPlaneTwo
    ELSE kTpGLClippingStencilPlaneOne

NoCache == <<"none", 0>>

\* One entry of glTrace; every entry has the same fields.
\* depth, cur and canSwap are the context's fields when the entry is made.
TraceEntry(call, cache, planes, value, sf, write, clip, painted, depth, cur, canSwap) ==
    [call |-> call, cache |-> cache, planes |-> planes, value |-> value,
     func |-> sf.func, ref |-> sf.ref, mask |-> sf.mask, write |-> write,
     clip |-> clip, painted |-> painted, depth |-> depth, cur |-> cur,
     canSwap |-> canSwap]

NoStencilFunc == [func |-> "", ref |-> 0, mask |-> 0]

\* glStencilMask(planes); glClearStencil(value); glClear(GL_STENCIL_BUFFER_BIT),
\* value 0 or ~0 (every bit of the planes 0, or 1).
GLClearStencil(m, planes, value) ==
    [m EXCEPT !.stencil = [pl \in ClipPlanes |->
                              IF pl \in planes
                              THEN (IF value = 0 THEN {} ELSE Pixels)
                              ELSE m.stencil[pl]],
              !.trace = Append(@, TraceEntry("glClear", NoCache, planes, value,
                                             NoStencilFunc, 0, FALSE, {}, m.depth, m.cur,
                                             m.canSwap))]

\* glStencilFunc of the fill raster pass of _tpGLDrawRenderCacheImpl.
FillStencilFunc_currentPlane(depth, cur) ==
    [func |-> IF depth # 0 THEN "GL_EQUAL" ELSE "GL_ALWAYS", ref |-> 0, mask |-> cur]

FillStencilFunc(depth, cur) ==
    [func |-> IF depth # 0 THEN "GL_EQUAL" ELSE "GL_ALWAYS",
     ref |-> 0,
     mask |-> OtherClipPlane(cur)]

\* The pixels that pass the stencil test sf (ref is 0: GL_EQUAL passes where
\* the bit of the tested plane is 0).
StencilPass(sf, st) ==
    IF sf.func = "GL_ALWAYS" THEN Pixels ELSE {p \in Pixels : p \notin st[sf.mask]}

\* _tpGLDrawRenderCacheImpl, the fill: a clip path writes the current clip
\* plane (GL_INVERT under even-odd, GL_ZERO where the raster plane is set under
\* non-zero); an ordinary draw rasters and covers, leaving the clip planes.
DrawRenderCacheImpl(m, cache, bIsClipPath) ==
    LET c == CacheContents(m, cache)
        sf == FillStencilFunc(m.depth, m.cur)
        hit == c.cover \cap StencilPass(sf, m.stencil)
        write == IF bIsClipPath THEN m.cur ELSE kTpGLFillRasterStencilPlane
    IN  IF c.contours = 0 THEN m
        ELSE IF bIsClipPath \/ c.fill # "kTpPaintTypeNone"
        THEN [m EXCEPT
                !.stencil = IF bIsClipPath
                            THEN [@ EXCEPT ![m.cur] =
                                    IF c.fillRule = "kTpFillRuleEvenOdd"
                                    THEN (@ \ hit) \cup (hit \ @)
                                    ELSE @ \ hit]
                            ELSE @,
                !.trace = Append(@, TraceEntry("fill", cache, {}, 0, sf, write, bIsClipPath,
                                               IF bIsClipPath THEN {} ELSE hit,
                                               m.depth, m.cur, m.canSwap))]
        ELSE m

\* _tpGLGenerateClippingMaskForRenderCache with clippingStackDepth below the
\* array size (the store past the array is in the actions).
GenerateClippingMaskForRenderCache(m, cache, bIsRebuilding) ==
    LET m1 == IF ~bIsRebuilding
              THEN [m EXCEPT !.stack = Append(@, cache), !.depth = @ + 1]
              ELSE m
        m2 == [m1 EXCEPT !.trace = Append(@, TraceEntry("generateClippingMask", cache, {}, 0,
                                                        NoStencilFunc, 0, TRUE, {},
                                                        m1.depth, m1.cur, m1.canSwap))]
        m3 == GLClearStencil(m2, {m2.cur}, 1)
        m4 == DrawRenderCacheImpl(m3, cache, TRUE)
    IN  [m4 EXCEPT !.cur = OtherClipPlane(@)]

\* The rebuild loop run from the top of the stack down.
RECURSIVE RebuildClippingMasks_fromTop(_, _)
RebuildClippingMasks_fromTop(m, i) ==
    IF i >= m.depth THEN m
    ELSE RebuildClippingMasks_fromTop(
             GenerateClippingMaskForRenderCache(m, m.stack[m.depth - i], TRUE), i + 1)

\* The rebuild loop of tpEndClipping: for (i = 0; i < depth; ++i).
RECURSIVE RebuildClippingMasks(_, _)
RebuildClippingMasks(m, i) ==
    IF i >= m.depth THEN m
    ELSE RebuildClippingMasks(
             GenerateClippingMaskForRenderCache(m, m.stack[i + 1], TRUE), i + 1)

\* ------------------------------------------------------------------ caching
\* The head of _tpGLCachePathImpl: a cache that is on the clipping stack is
\* copied into the pool slot of each level that holds it, and the level is
\* pointed at the copy.
CopyIntoClippingPool(m, cache) ==
    LET held == {i \in 0..(m.depth - 1) : m.stack[i + 1] = cache}
    IN  [m EXCEPT
            !.pool = [i \in (DOMAIN m.pool) \cup held |->
                        IF i \in held
                        THEN RenderCacheCopyTo(CacheContents(m, cache),
                                               CacheContents(m, PoolSlot(i)))
                        ELSE m.pool[i]],
            !.stack = [i \in 1..Len(m.stack) |->
                         IF (i - 1) \in held THEN PoolSlot(i - 1) ELSE m.stack[i]]]

\* _tpGLCachePathImpl with bGeometryDirty: an empty path clears the cache (its
\* style is left), any other path is flattened into it under the style.
CachePathImpl_noCopy(m, contours, style, cache) ==
    [m EXCEPT !.rc[cache] =
        IF contours = {}
        THEN [@ EXCEPT !.contours = 0, !.cover = {}]
        ELSE [contours |-> 1, cover |-> contours,
              fillRule |-> style.fillRule, fill |-> style.fill]]

CachePathImpl(m, contours, style, cache) ==
    LET m1 == CopyIntoClippingPool(m, cache)
    IN  [m1 EXCEPT !.rc[cache] =
            IF contours = {}
            THEN [@ EXCEPT !.contours = 0, !.cover = {}]
            ELSE [contours |-> 1, cover |-> contours,
                  fillRule |-> style.fillRule, fill |-> style.fill]]

\* _tpGLUpdateInternalPathCache: nothing for a path without contours; the
\* first use creates the internal cache and builds it; later uses rebuild it
\* when the path geometry is dirty.  Returns the machine state and the path's
\* flags.
UpdateInternalPathCache(m, style) ==
    IF pathContours = {}
    THEN [m |-> m, dirty |-> bPathGeometryDirty, cache |-> pathRenderCache]
    ELSE IF ~pathRenderCache \/ bPathGeometryDirty
    THEN [m |-> CachePathImpl(m, pathContours, style, PathCache),
          dirty |-> FALSE, cache |-> TRUE]
    ELSE [m |-> m, dirty |-> bPathGeometryDirty, cache |-> TRUE]

\* -------------------------------------------------------------------- path
\* Coordinates of segment points.
Coords == {0, 1}

\* Transforms are uniform scalings about the origin, named by their factor;
\* projections likewise.
Transforms == {1, 2}
Projections == {1, 2}
tpTransformMakeIdentity == 1
tpMat4MakeIdentity == 1
tpTransformEquals(a, b) == a = b
tpTransformApply(t, x) == t * x
\* tpTransformDecompose, then the larger of the two scale factors.
tpTransformScale(t) == t

\* tpSegmentMake.
tpSegmentMake(h0, p, h1) == [handleIn |-> h0, position |-> p, handleOut |-> h1]

\* The segment arrays callers pass to tpPathAddSegments, tpPathAddContour and
\* tpPathSetContour.
InputSegments == {tpSegmentMake(0, 1, 1)}
SegmentLists ==
    UNION {[1..n -> InputSegments] : n \in 0..MaxInputSegments}

\* ------------------------------------------------------------ flattening
\* A cubic curve is named by the number of bisections it takes until
\* _tpGLIsCurveFlatEnough holds of its parts: 0 for a curve that is flat
\* enough.  NotANumber names a curve with a coordinate that is not a number:
\* every comparison of the flatness test is false of it, and each of its
\* halves has such a coordinate again.
NotANumber == -1
Curves == 0..MaxBisections \cup {NotANumber}
tpGLIsCurveFlatEnough(curve) == curve # NotANumber /\ curve = 0
tpGLSubdivideCurve(curve) ==
    LET half == IF curve = NotANumber THEN NotANumber ELSE curve - 1
    IN  [first |-> half, second |-> half]

\* _tpGLFlattenCurve outside its loop: stackIndex is below zero.
NoCurve == -2
NotFlattening == [stack |-> <<>>, stackIndex |-> -1, emitted |-> NoCurve, emittedAt |-> -1]

\* _tpGLFlattenCurve is called with a curve: stack[0] = *_curve.
tpGLFlattenCurve(curve) ==
    /\ flatten.stackIndex < 0
    /\ flatten' = [stack |-> <<curve>>, stackIndex |-> 0, emitted |-> NoCurve,
                   emittedAt |-> -1]

\* One turn of the loop of _tpGLFlattenCurve: the current curve is bisected,
\* its second half put in its place and the first half on top, or it is
\* emitted (its end point appended to the vertices) and taken off the stack.
tpGLFlattenCurveStep ==
    /\ flatten.stackIndex >= 0
    /\ LET stackIndex == flatten.stackIndex
           current == flatten.stack[stackIndex + 1]
           cp == tpGLSubdivideCurve(current)
       IN  IF stackIndex < TARP_MAX_CURVE_SUBDIVISIONS - 1
              /\ ~tpGLIsCurveFlatEnough(current)
           THEN flatten' = [flatten EXCEPT
                               !.stack = Append([@ EXCEPT ![stackIndex + 1] = cp.second],
                                                cp.first),
                               !.stackIndex = stackIndex + 1]
           ELSE flatten' = [flatten EXCEPT
                               !.stack = SubSeq(@, 1, stackIndex),
                               !.stackIndex = stackIndex - 1,
                               !.emitted = current,
                               !.emittedAt = stackIndex]

\* -------------------------------------------------------------- dashing
\* Lengths are whole numbers.  A contour is given by the lengths of the
\* segments between its fill vertices and its closed flag; positions are
\* lengths along the contour from its first vertex.
TARP_MIN(a, b) == IF a < b THEN a ELSE b
TARP_MAX(a, b) == IF a > b THEN a ELSE b

\* fmod: the remainder with the sign of x.
fmod(x, y) == IF x >= 0 THEN x % y ELSE -((-x) % y)

RECURSIVE SumTo(_, _)
SumTo(a, n) == IF n = 0 THEN 0 ELSE a[n] + SumTo(a, n - 1)

\* The loop of _tpGLStroke for a positive dash offset: dashes are added to
\* startDashLen from the front of the array while it is not positive.
RECURSIVE DashStartForward(_, _, _)
DashStartForward(dashArray, startDashLen, startDashIndex) ==
    IF startDashLen <= 0
    THEN DashStartForward(dashArray, startDashLen + dashArray[startDashIndex + 1],
                          startDashIndex + 1)
    ELSE [startDashLen |-> startDashLen, startDashIndex |-> startDashIndex]

\* The loop of _tpGLStroke for a negative dash offset: dashes are taken off
\* startDashLen from the back of the array while it is positive.
RECURSIVE DashStartBackward(_, _, _)
DashStartBackward(dashArray, startDashLen, startDashIndex) ==
    IF startDashLen > 0
    THEN DashStartBackward(dashArray, startDashLen - dashArray[startDashIndex],
                           startDashIndex - 1)
    ELSE [startDashLen |-> startDashLen, startDashIndex |-> startDashIndex]

\* The dash lengths of the model, also the values a read past the end of the
\* dash array may give.
DashLengths == 0..MaxDashLength

\* The dash start state with the first dash taken as off.
DashStartStates_startsOff(dashArray, dashOffset) ==
    {[startDashIndex |-> 0, bStartDashOn |-> FALSE, startDashLen |-> dashArray[1]]}

\* _tpGLStroke, the start of the dash pattern: the dash start states it may
\* compute for a dash array and a dash offset (more than one when it reads
\* past the end of the array).  With an offset the pattern length is taken
\* as positive.
DashStartStates(dashArray, dashOffset) ==
    LET dashCount == Len(dashArray)
        patternLen == SumTo(dashArray, dashCount)
        magnitude == IF dashOffset < 0 THEN -dashOffset ELSE dashOffset
        offsetIntoPattern == IF magnitude >= patternLen THEN fmod(dashOffset, patternLen)
                             ELSE dashOffset
        fwd == DashStartForward(dashArray, -offsetIntoPattern, 0)
        bwd == DashStartBackward(dashArray, -offsetIntoPattern, dashCount)
        fwdIndex == TARP_MAX(0, fwd.startDashIndex - 1)
        bwdIndex == TARP_MAX(0, bwd.startDashIndex)
    IN  IF dashOffset = 0
        THEN {[startDashIndex |-> 0, bStartDashOn |-> TRUE, startDashLen |-> dashArray[1]]}
        ELSE IF dashOffset > 0
        THEN {[startDashIndex |-> fwdIndex, bStartDashOn |-> fwdIndex % 2 = 0,
               startDashLen |-> fwd.startDashLen]}
        ELSE IF bwdIndex < dashCount
        THEN {[startDashIndex |-> bwdIndex, bStartDashOn |-> bwdIndex % 2 = 0,
               startDashLen |-> dashArray[bwdIndex + 1] + bwd.startDashLen]}
        ELSE {[startDashIndex |-> bwdIndex, bStartDashOn |-> bwdIndex % 2 = 0,
               startDashLen |-> past + bwd.startDashLen] : past \in DashLengths}

\* The dasher outside _tpGLRenderCacheContourDashedStrokeGeometry.
NotDashing ==
    [pc |-> "idle", segments |-> <<>>, bIsClosed |-> FALSE, dashArray |-> <<>>,
     styleDashOffset |-> 0, j |-> 0, origin |-> 0, segmentOff |-> 0,
     dashIndex |-> 0, dashOffset |-> 0, dashLen |-> 0, bOnDash |-> FALSE,
     bDashStart |-> FALSE, bFirstDashMightNeedJoin |-> FALSE, bBarelyJoined |-> FALSE,
     out |-> <<>>]

\* A piece of stroke geometry: a quad, a cap, a join, from a position to a
\* position.
Piece(what, from, to) == [what |-> what, from |-> from, to |-> to]

\* The geometry made so far with some pieces added; the record keeps the
\* first MaxEvents pieces.
PushPieces(out, pieces) == SubSeq(out \o pieces, 1, TARP_MIN(Len(out \o pieces), MaxEvents))

\* _tpGLStroke computes the dash start state and calls
\* _tpGLRenderCacheContourDashedStrokeGeometry for a contour: the locals as
\* they are before the loop over the segments.
tpGLDashedStrokeGeometry(segments, bIsClosed, dashArray, dashOffset) ==
    /\ dasher.pc \in {"idle", "done"}
    /\ \E start \in DashStartStates(dashArray, dashOffset) :
          dasher' = [NotDashing EXCEPT
                        !.pc = IF segments = <<>> THEN "done" ELSE "segment",
                        !.segments = segments,
                        !.bIsClosed = bIsClosed,
                        !.dashArray = dashArray,
                        !.styleDashOffset = dashOffset,
                        !.dashIndex = start.startDashIndex,
                        !.dashLen = start.startDashLen,
                        !.bOnDash = start.bStartDashOn,
                        !.bDashStart = TRUE]

\* The loop over the segments reaches segment j: a join is made at a joint
\* (every vertex but the first) when on a dash.
tpGLDashSegment ==
    /\ dasher.pc = "segment"
    /\ dasher' = [dasher EXCEPT
                     !.pc = "dash",
                     !.segmentOff = 0,
                     !.out = IF dasher.bOnDash /\ dasher.j > 0
                             THEN PushPieces(@, <<Piece("join", dasher.origin, dasher.origin)>>)
                             ELSE @]

\* One turn of the do-while loop over the dashes of segment j, and what
\* follows the loop when it is left.
tpGLDashStep ==
    /\ dasher.pc = "dash"
    /\ LET d == dasher
           dashCount == Len(d.dashArray)
           segmentLen == d.segments[d.j + 1]
           bLastSegment == d.j = Len(d.segments) - 1
           left == TARP_MIN(segmentLen - d.segmentOff, d.dashLen - d.dashOffset)
           p0 == d.origin + d.segmentOff
           p1 == p0 + left
           starts == d.bDashStart /\ d.bOnDash
           capsStart == starts /\ (~d.bIsClosed \/ d.j # 0 \/ d.segmentOff > 0)
           mightJoin == d.bFirstDashMightNeedJoin \/ (starts /\ ~capsStart /\ d.j = 0)
           bDashStart1 == IF starts THEN FALSE ELSE d.bDashStart
           dashOffset1 == d.dashOffset + left
           segmentOff1 == d.segmentOff + left
           dashEnds == dashOffset1 >= d.dashLen
           capsEnd == /\ dashEnds /\ d.bOnDash
                      /\ ~mightJoin \/ ~bLastSegment \/ segmentLen - segmentOff1 > 0
           barely == d.bBarelyJoined \/ (dashEnds /\ d.bOnDash /\ ~capsEnd)
           dashIndex1 == IF dashEnds THEN (d.dashIndex + 1) % dashCount ELSE d.dashIndex
           dashOffset2 == IF dashEnds THEN 0 ELSE dashOffset1
           dashLen1 == IF dashEnds THEN d.dashArray[dashIndex1 + 1] ELSE d.dashLen
           bOnDash1 == IF dashEnds THEN ~d.bOnDash ELSE d.bOnDash
           leaves == ~(segmentLen - segmentOff1 > 0)
           closes == leaves /\ bLastSegment
           inLoop ==
               (IF capsStart THEN <<Piece("startCap", p0, p0)>> ELSE <<>>)
               \o (IF ~d.bDashStart /\ d.bOnDash THEN <<Piece("bevel", p0, p0)>> ELSE <<>>)
               \o (IF d.bOnDash THEN <<Piece("quad", p0, p1)>> ELSE <<>>)
               \o (IF capsEnd THEN <<Piece("endCap", p1, p1)>> ELSE <<>>)
           afterLoop ==
               IF ~closes THEN <<>>
               ELSE IF mightJoin
               THEN IF barely \/ (dashOffset2 > 0 /\ bOnDash1)
                    THEN <<Piece("closingJoin", p1, 0)>>
                    ELSE <<Piece("startCap", 0, 0)>>
               ELSE IF dashOffset2 > 0 /\ bOnDash1
               THEN <<Piece("endCap", p1, p1)>>
               ELSE <<>>
       IN  dasher' = [d EXCEPT
                         !.pc = IF ~leaves THEN "dash"
                                ELSE IF bLastSegment THEN "done" ELSE "segment",
                         !.j = IF leaves THEN d.j + 1 ELSE d.j,
                         !.origin = IF leaves THEN d.origin + segmentLen ELSE d.origin,
                         !.segmentOff = segmentOff1,
                         !.dashIndex = dashIndex1,
                         !.dashOffset = IF leaves THEN 0 ELSE dashOffset2,
                         !.dashLen = IF leaves THEN dashLen1 - dashOffset2 ELSE dashLen1,
                         !.bOnDash = bOnDash1,
                         !.bDashStart = IF dashEnds THEN TRUE ELSE bDashStart1,
                         !.bFirstDashMightNeedJoin = mightJoin,
                         !.bBarelyJoined = barely,
                         !.out = PushPieces(@, inLoop \o afterLoop)]

\* ------------------------------------------------------------------ gradient
\* Stop offsets in halves: 0, 1/2, 1 (OffsetOne) and 3/2.
OffsetOne == 2
Offsets == 0..(OffsetOne + 1)
Colors == {"red", "blue"}
\* What a read of a color outside the stops written can give.
StrayColors == Colors \cup {"stray"}

tpColorStopMake(color, offset) == [color |-> color, offset |-> offset]

\* _tpGLFinalizeColorStops, its first loop: the stops of in, in order, that
\* are within 0..1 and whose offset is not yet in tmp.
RECURSIVE RemoveDuplicates(_, _)
RemoveDuplicates(in, tmp) ==
    IF in = <<>> THEN tmp
    ELSE LET current == Head(in)
             bAdd == \A j \in 1..Len(tmp) : tmp[j].offset # current.offset
         IN  RemoveDuplicates(Tail(in),
                              IF bAdd /\ current.offset >= 0 /\ current.offset <= OffsetOne
                              THEN Append(tmp, current) ELSE tmp)

\* qsort with _tpGLColorStopComp, on stops of distinct offsets.
RECURSIVE SortColorStops(_)
SortColorStops(tmp) ==
    IF tmp = <<>> THEN <<>>
    ELSE LET k == CHOOSE k \in 1..Len(tmp) :
                      \A j \in 1..Len(tmp) : tmp[k].offset <= tmp[j].offset
         IN  <<tmp[k]>> \o SortColorStops(SubSeq(tmp, 1, k - 1) \o SubSeq(tmp, k + 1, Len(tmp)))

\* _tpGLFinalizeColorStops.  atFirst and atLast are what element 0 and the
\* last element of the temporary array read as when it holds no stop.
FinalizeColorStops(in, atFirst, atLast) ==
    LET tmp == SortColorStops(RemoveDuplicates(in, <<>>))
        bHasStartStop == \E i \in 1..Len(in) : in[i].offset = 0
        bHasEndStop == \E i \in 1..Len(in) : in[i].offset = OffsetOne
        first == IF tmp = <<>> THEN atFirst ELSE tmp[1].color
        last == IF tmp = <<>> THEN atLast ELSE tmp[Len(tmp)].color
    IN  IF in = <<>> THEN in
        ELSE IF bHasStartStop /\ bHasEndStop THEN tmp
        ELSE (IF bHasStartStop THEN <<>> ELSE <<tpColorStopMake(first, 0)>>)
             \o tmp
             \o (IF bHasEndStop THEN <<>> ELSE <<tpColorStopMake(last, OffsetOne)>>)

\* ---------------------------------------------------------- cached geometry
\* The styles, as far as the geometry depends on them: the stroke paint, the
\* stroke width and whether the stroke scales with the transform.
StrokeStyles ==
    [stroke : {"kTpPaintTypeNone", "kTpPaintTypeColor"}, strokeWidth : {1},
     scaleStroke : BOOLEAN]

\* A NULL transform pointer: the vertices are left untransformed.
NoTransform == 0

\* _tpGLFlattenContour: the vertices of a contour under the transform t.  A
\* curve between two segments is taken as flat enough at the first test, so
\* the first curve gives its two end points and every further curve its end
\* point; a closed contour whose first and last positions differ gets the
\* closing curve.
FlattenContour(c, t) ==
    LET n == Len(c.segments)
        at(j) == IF t = NoTransform THEN c.segments[j].position
                 ELSE tpTransformApply(t, c.segments[j].position)
    IN  IF n <= 1 THEN <<>>
        ELSE [j \in 1..n |-> at(j)]
             \o (IF c.bIsClosed /\ c.segments[1].position # c.segments[n].position
                 THEN <<at(1)>> ELSE <<>>)

\* _tpGLRenderCacheContourContinousStrokeGeometry: the stroke of a flattened
\* contour, named by the vertices it was made along; none for a contour of
\* one vertex or less.
StrokeGeometry(fillVertices) == IF Len(fillVertices) <= 1 THEN <<>> ELSE fillVertices

\* A _tpGLRenderCache: per contour the fill vertices, their place in the
\* geometry array and the vertices its stroke was made along; the geometry
\* array (fill vertices, stroke vertices, bounds quad) and the joint flags of
\* the fill vertices; the places of the stroke and of the bounds quad in the
\* geometry array; the style and the render matrix (the projection, and the
\* transform when it is not in the vertices).  NullCache is the NULL pointer,
\* NewCache the cache tpRenderCacheCreate gives.
NoStyle == [stroke |-> "kTpPaintTypeNone", strokeWidth |-> 0, scaleStroke |-> FALSE]
NullCache ==
    [null |-> TRUE, contours |-> <<>>, geometryCache |-> <<>>, jointCache |-> <<>>,
     strokeVertexOffset |-> 0, strokeVertexCount |-> 0, boundsVertexOffset |-> 0,
     style |-> NoStyle, renderMatrix |-> <<1, 1>>]
NewCache == [NullCache EXCEPT !.null = FALSE]

\* The vertices of the geometry array: a fill vertex at a position, a stroke
\* vertex on the left or right edge of the stroke of some width made along a
\* fill vertex, a corner of the bounds quad (widened by the stroke width when
\* the style has a stroke paint).
FillVertex(x) == [kind |-> "fill", at |-> x, width |-> 0]
StrokeVertex(edge, x, w) == [kind |-> edge, at |-> x, width |-> w]
BoundsVertexCount == 4
BoundsGeometry(style) ==
    [k \in 1..BoundsVertexCount |->
        [kind |-> "bounds", at |-> k - 1,
         width |-> IF style.stroke # "kTpPaintTypeNone" THEN style.strokeWidth ELSE 0]]

\* The positions of a run of vertices.
Positions(vs) == [k \in 1..Len(vs) |-> vs[k].at]

\* The joint flags _tpGLFlattenContour gives the n vertices of a contour.
FlattenJoints(n) == [k \in 1..n |-> k > 1]

\* Appending arrays one after the other.
RECURSIVE Concat(_)
Concat(arrays) == IF arrays = <<>> THEN <<>> ELSE Head(arrays) \o Concat(Tail(arrays))

\* Reading count elements at offset through an array's pointer: past the
\* array's count the memory still holds what the array held before (stale).
ArrayRead(array, stale, offset, count) ==
    [k \in 1..count |-> IF offset + k <= Len(array) THEN array[offset + k]
                        ELSE stale[offset + k]]

\* _tpGLRenderCacheCopyTo, the geometry, style and matrix fields: the cache
\* `to` after the cache `from` was copied into it.
RenderCacheCopyGeometry(from, to) ==
    [to EXCEPT !.contours = from.contours,
               !.geometryCache = from.geometryCache,
               !.jointCache = from.jointCache,
               !.strokeVertexOffset = from.strokeVertexCount,
               !.strokeVertexCount = from.strokeVertexCount,
               !.boundsVertexOffset = from.boundsVertexOffset,
               !.renderMatrix = from.renderMatrix,
               !.style = from.style]

\* The range of the geometry array _tpGLDrawRenderCacheImpl draws as the
\* stroke of a cache: none when the cache counts no stroke vertices.
StrokeDrawRange(cache) ==
    IF cache.strokeVertexCount = 0 THEN <<>>
    ELSE <<cache.strokeVertexOffset, cache.strokeVertexCount>>

\* bStyleHasStroke.
StyleHasStroke(style) == style.stroke # "kTpPaintTypeNone" /\ style.strokeWidth > 0

\* The contour i of the path is flattened anew by _tpGLCachePathImpl: it is
\* dirty, or the old cache has no contours.
Reflattened(p, old, i) == p.contours[i].bDirty \/ old.contours = <<>>

\* _tpGLCachePathImpl reads the old cache through a NULL pointer or past its
\* contours: a clean contour with no old cache entry to copy.
CacheFault(p, old, bGeometryDirty) ==
    /\ bGeometryDirty
    /\ \E i \in 1..Len(p.contours) :
          /\ ~p.contours[i].bDirty
          /\ old.null \/ (old.contours # <<>> /\ i > Len(old.contours))

\* Where the stroke-only branch of _tpGLCachePathImpl cuts the geometry
\* array: at the stroke offset the cache records, or before the bounds quad
\* when that offset is zero.
StrokeRemovalStart(cache) ==
    IF cache.strokeVertexOffset # 0 THEN cache.strokeVertexOffset
    ELSE Len(cache.geometryCache) - BoundsVertexCount

\* The stroke-only branch removes a range that starts outside the geometry
\* array.
StrokeRemovalFault(p, style, cache, bGeometryDirty, bStrokeDirty) ==
    /\ p.contours # <<>>
    /\ ~bGeometryDirty /\ bStrokeDirty /\ StyleHasStroke(style)
    /\ StrokeRemovalStart(cache) \notin 0..Len(cache.geometryCache)

\* _tpGLCachePathImpl (geometry and stroke): builds cache from the path p
\* under style, copying from old what it takes as still valid.  Gives the
\* path (its contours' dirty flags) and the cache.
CachePathGeometry(p, style, old, cache, bIsPathRenderCache, bGeometryDirty, bStrokeDirty) ==
    LET hasStroke == StyleHasStroke(style)
        n == Len(p.contours)
        t == IF style.scaleStroke THEN NoTransform ELSE transform
        styled == [cache EXCEPT !.style = style,
                                !.renderMatrix = IF style.scaleStroke
                                                 THEN <<projection, transform>>
                                                 ELSE <<projection, 1>>]
        fill(i) == IF Reflattened(p, old, i) THEN FlattenContour(p.contours[i], t)
                   ELSE Positions(ArrayRead(old.geometryCache, old.geometryCache,
                                            old.contours[i].fillVertexOffset,
                                            old.contours[i].fillVertexCount))
        joints(i) == IF Reflattened(p, old, i) THEN FlattenJoints(Len(fill(i)))
                     ELSE ArrayRead(old.jointCache, old.jointCache,
                                    old.contours[i].fillVertexOffset,
                                    old.contours[i].fillVertexCount)
        fillVertexOffset(i) == Len(Concat([j \in 1..(i - 1) |-> fill(j)]))
        restroke(i) == p.contours[i].bDirty \/ bStrokeDirty \/ old.null
        strokeAlong(i) == IF ~hasStroke THEN <<>>
                          ELSE IF restroke(i) THEN StrokeGeometry(fill(i))
                          ELSE old.contours[i].strokeAlong
        strokeOf(along) ==
            Concat([k \in 1..Len(along) |->
                       <<StrokeVertex("strokeLeft", along[k], style.strokeWidth),
                         StrokeVertex("strokeRight", along[k], style.strokeWidth)>>])
        clean(i) == /\ bIsPathRenderCache
                    /\ IF hasStroke THEN restroke(i) ELSE Reflattened(p, old, i)
        tmpVertices == [k \in 1..Len(Concat([i \in 1..n |-> fill(i)])) |->
                           FillVertex(Concat([i \in 1..n |-> fill(i)])[k])]
        tmpStroke == Concat([i \in 1..n |-> strokeOf(strokeAlong(i))])
        \* the stroke-only branch: the geometry array cut where the stroke is
        \* taken to start, and stroked[i], the array after the contours up to
        \* i were stroked from the fill vertices read through it
        m == Len(cache.contours)
        cut == SubSeq(cache.geometryCache, 1, StrokeRemovalStart(cache))
        readAlong(array, i) ==
            StrokeGeometry(Positions(ArrayRead(array, cache.geometryCache,
                                               cache.contours[i].fillVertexOffset,
                                               cache.contours[i].fillVertexCount)))
        stroked[i \in 0..m] ==
            IF i = 0 THEN cut ELSE stroked[i - 1] \o strokeOf(readAlong(stroked[i - 1], i))
    IN  IF n = 0
        THEN [path |-> p, cache |-> [cache EXCEPT !.contours = <<>>,
                                                  !.geometryCache = <<>>,
                                                  !.jointCache = <<>>]]
        ELSE IF bGeometryDirty
        THEN [path |-> [p EXCEPT !.contours =
                           [i \in 1..n |-> [p.contours[i] EXCEPT
                               !.bDirty = IF clean(i) THEN FALSE ELSE @]]],
              cache |-> [styled EXCEPT
                  !.contours =
                      [i \in 1..n |-> [fillVertices |-> fill(i),
                                       fillVertexOffset |-> fillVertexOffset(i),
                                       fillVertexCount |-> Len(fill(i)),
                                       bIsClosed |-> p.contours[i].bIsClosed,
                                       strokeAlong |-> strokeAlong(i)]],
                  !.jointCache = Concat([i \in 1..n |-> joints(i)]),
                  !.strokeVertexOffset = IF hasStroke THEN Len(tmpVertices) ELSE @,
                  !.strokeVertexCount = IF hasStroke THEN Len(tmpStroke) ELSE @,
                  !.boundsVertexOffset = Len(tmpVertices \o tmpStroke),
                  !.geometryCache = tmpVertices \o tmpStroke \o BoundsGeometry(style)]]
        ELSE IF bStrokeDirty /\ hasStroke
        THEN [path |-> IF bIsPathRenderCache
                       THEN [p EXCEPT !.contours =
                               [i \in 1..n |-> [p.contours[i] EXCEPT !.bDirty = FALSE]]]
                       ELSE p,
              cache |-> [styled EXCEPT
                  !.contours = [i \in 1..m |-> [cache.contours[i] EXCEPT
                                   !.strokeAlong = readAlong(stroked[i - 1], i)]],
                  !.strokeVertexOffset = Len(cut),
                  !.strokeVertexCount = Len(stroked[m]) - Len(cut),
                  !.boundsVertexOffset = Len(stroked[m]),
                  !.geometryCache = stroked[m] \o BoundsGeometry(style)]]
        ELSE IF bStrokeDirty
        THEN [path |-> p,
              cache |-> [styled EXCEPT
                  !.contours = [i \in 1..m |-> [cache.contours[i] EXCEPT !.strokeAlong = <<>>]],
                  !.strokeVertexCount = 0]]
        ELSE [path |-> p, cache |-> styled]

\* _tpGLPathMarkAllContoursDirty.
PathMarkAllContoursDirty(p) ==
    [p EXCEPT !.bPathGeometryDirty = TRUE,
              !.contours = [i \in 1..Len(p.contours) |-> [p.contours[i] EXCEPT !.bDirty = TRUE]]]

\* InternalCacheDirt with the scale compared by its absolute difference.
InternalCacheDirt_absoluteScale(p, style) ==
    LET cache == p.renderCache
        bTransformDirty == p.lastDrawContext # "ctx" \/ p.lastTransformID # transformID
        bMarkAllContoursDirty ==
            bTransformDirty /\ (transformScale # p.lastTransformScale \/ ~style.scaleStroke)
        p1 == IF bTransformDirty
              THEN [p EXCEPT !.lastTransformID = transformID, !.lastDrawContext = "ctx",
                             !.lastTransformScale = transformScale]
              ELSE p
        all == \/ bMarkAllContoursDirty
               \/ /\ ~p.bPathGeometryDirty
                  /\ style.stroke # "kTpPaintTypeNone"
                  /\ cache.style.scaleStroke # style.scaleStroke
        styleStrokeDirty == \/ cache.style.stroke # style.stroke
                            \/ cache.style.strokeWidth # style.strokeWidth
    IN  IF p.renderCache.null
        THEN [path |-> p, geometry |-> TRUE, stroke |-> TRUE, transform |-> FALSE]
        ELSE [path |-> IF all THEN PathMarkAllContoursDirty(p1) ELSE p1,
              geometry |-> p.bPathGeometryDirty \/ all,
              stroke |-> all \/ styleStrokeDirty,
              transform |-> bTransformDirty]

\* What _tpGLUpdateInternalPathCache finds dirty in the path p drawn under
\* style: the path with its transform marks updated, and the flags it passes
\* to _tpGLCachePathImpl.
InternalCacheDirt(p, style) ==
    LET cache == p.renderCache
        bTransformDirty == p.lastDrawContext # "ctx" \/ p.lastTransformID # transformID
        bMarkAllContoursDirty ==
            bTransformDirty /\ (transformScale - p.lastTransformScale > 0 \/ ~style.scaleStroke)
        p1 == IF bTransformDirty
              THEN [p EXCEPT !.lastTransformID = transformID, !.lastDrawContext = "ctx",
                             !.lastTransformScale = transformScale]
              ELSE p
        all == \/ bMarkAllContoursDirty
               \/ /\ ~p.bPathGeometryDirty
                  /\ style.stroke # "kTpPaintTypeNone"
                  /\ cache.style.scaleStroke # style.scaleStroke
        styleStrokeDirty == \/ cache.style.stroke # style.stroke
                            \/ cache.style.strokeWidth # style.strokeWidth
    IN  IF p.renderCache.null
        THEN [path |-> p, geometry |-> TRUE, stroke |-> TRUE, transform |-> FALSE]
        ELSE [path |-> IF all THEN PathMarkAllContoursDirty(p1) ELSE p1,
              geometry |-> p.bPathGeometryDirty \/ all,
              stroke |-> all \/ styleStrokeDirty,
              transform |-> bTransformDirty]

\* _tpGLUpdateInternalPathCache: the path after its internal cache was brought
\* up to date for a draw under style.
UpdateInternalCache(p, style) ==
    IF p.contours = <<>> THEN p
    ELSE LET d == InternalCacheDirt(p, style)
             cache == IF p.renderCache.null THEN NewCache ELSE p.renderCache
             r == CachePathGeometry(d.path, style, cache, cache, TRUE, d.geometry, d.stroke)
         IN  IF d.geometry \/ d.stroke \/ d.transform
             THEN [r.path EXCEPT !.renderCache = r.cache, !.bPathGeometryDirty = FALSE]
             ELSE [d.path EXCEPT !.renderCache = cache]

PathHandles == {"path", "clone"}
NoPath ==
    [contours |-> <<>>, currentContourIndex |-> -2, bPathGeometryDirty |-> FALSE,
     lastTransformScale |-> 1, lastDrawContext |-> "NULL", lastTransformID |-> 0,
     renderCache |-> NullCache]

\* No path call was made yet.
NoReturn == [call |-> "", path |-> "", ret |-> FALSE, message |-> "",
             notStarted |-> FALSE, contour |-> -1]

\* tpPathCreate.
NewPath ==
    [contours |-> <<>>, currentContourIndex |-> -1, bPathGeometryDirty |-> TRUE,
     lastTransformScale |-> 1, lastDrawContext |-> "NULL", lastTransformID |-> 0,
     renderCache |-> NullCache]

\* What a path call gives back: the path, the message it passed to
\* _tpGLSetErrorMessage ("" if it did not call it), its return value and
\* where its store through lastSegmentIndex went.
PathResult(p, message, ret, store) ==
    [path |-> p, message |-> message, ret |-> ret, store |-> store]
Done(p) == PathResult(p, "", FALSE, "none")

StartContourMessage == "You have to start a contour before issuing this command"
CloseFailedMessage ==
    "tpPathClose failed because the path has no contour or the current contour is empty."

\* _tpGLCurrentContour != NULL; the contour is contours[currentContourIndex].
HasCurrentContour(p) == p.currentContourIndex # -1
CurrentContour(p) == p.contours[p.currentContourIndex + 1]

\* _tpGLPathCreateNextContour.
PathCreateNextContour(p) ==
    [p EXCEPT !.currentContourIndex = Len(p.contours),
              !.contours = Append(@, [segments |-> <<>>, bDirty |-> TRUE,
                                      bIsClosed |-> FALSE, lastSegmentIndex |-> -1])]

\* _tpGLPathNextEmptyContour.
PathNextEmptyContour(p) ==
    IF ~HasCurrentContour(p) \/ Len(CurrentContour(p).segments) # 0
    THEN PathCreateNextContour(p)
    ELSE p

\* _tpGLContourAddSegments and _tpGLPathAddSegmentsToCurrentContour, on the
\* contour of index ci.
ContourAddSegments(p, ci, segs) ==
    LET c == p.contours[ci + 1]
        all == c.segments \o segs
    IN  [p EXCEPT !.contours[ci + 1] =
                      [c EXCEPT !.segments = all,
                                !.lastSegmentIndex = Len(all) - 1,
                                !.bDirty = TRUE],
                  !.bPathGeometryDirty = TRUE]

\* _tpGLContourAddSegment.
ContourAddSegment(p, ci, h0, px, h1) ==
    ContourAddSegments(p, ci, <<tpSegmentMake(h0, px, h1)>>)

\* tpPathAddSegment.
PathAddSegment(p, h0, px, h1) ==
    LET p1 == IF HasCurrentContour(p) THEN p ELSE PathCreateNextContour(p)
    IN  Done(ContourAddSegment(p1, p1.currentContourIndex, h0, px, h1))

\* tpPathLineTo.
PathLineTo(p, x) ==
    IF ~HasCurrentContour(p) \/ CurrentContour(p).lastSegmentIndex = -1
    THEN PathResult(p, StartContourMessage, TRUE, "none")
    ELSE Done(ContourAddSegment(p, p.currentContourIndex, x, x, x))

\* tpPathMoveTo.
PathMoveTo(p, x) ==
    LET p1 == PathNextEmptyContour(p)
    IN  Done(ContourAddSegment(p1, p1.currentContourIndex, x, x, x))

\* tpPathClear.
PathClear(p) ==
    Done([p EXCEPT !.currentContourIndex = -1, !.contours = <<>>,
                   !.bPathGeometryDirty = TRUE])

\* segments[lastSegmentIndex].handleOut = h of the current contour: inside
\* the array when the index is one of its segments, in its unused capacity
\* when the index is past them, outside the array when it is negative.
StoreHandleOut(p, h) ==
    LET ci == p.currentContourIndex
        c == CurrentContour(p)
        i == c.lastSegmentIndex
    IN  IF i >= 0 /\ i < Len(c.segments)
        THEN [path |-> [p EXCEPT !.contours[ci + 1].segments[i + 1].handleOut = h],
              store |-> "none"]
        ELSE [path |-> p, store |-> IF i < 0 THEN "stray" ELSE "spare"]

\* tpPathCubicCurveTo.
PathCubicCurveTo(p, h0, h1, px) ==
    IF ~HasCurrentContour(p) \/ CurrentContour(p).lastSegmentIndex = -1
    THEN PathResult(p, StartContourMessage, TRUE, "none")
    ELSE LET s == StoreHandleOut(p, h0)
         IN  PathResult(ContourAddSegment(s.path, p.currentContourIndex, h1, px, px),
                        "", FALSE, s.store)

\* tpPathQuadraticCurveTo.
PathQuadraticCurveTo(p, h, px) ==
    IF ~HasCurrentContour(p) \/ CurrentContour(p).lastSegmentIndex = -1
    THEN PathResult(p, StartContourMessage, TRUE, "none")
    ELSE LET s == StoreHandleOut(p, h)
         IN  PathResult(ContourAddSegment(s.path, p.currentContourIndex, h, px, px),
                        "", FALSE, s.store)

\* The loop of tpPathArcTo: ndivs calls of tpPathCubicCurveTo, the last one
\* ending at x (the control points are not computed: the points on the arc
\* are given the coordinate of its end).
RECURSIVE ArcCurves(_, _, _)
ArcCurves(r, x, ndivs) ==
    IF ndivs = 0 \/ r.ret THEN r
    ELSE LET n == PathCubicCurveTo(r.path, x, x, x)
         IN  ArcCurves(PathResult(n.path, n.message, n.ret,
                                  IF r.store = "stray" THEN "stray" ELSE n.store),
                       x, ndivs - 1)

\* tpPathArcTo: ndivs = 0 is the arc that degenerates to a line.
PathArcTo(p, x, ndivs) ==
    IF ~HasCurrentContour(p) \/ CurrentContour(p).lastSegmentIndex = -1
    THEN PathResult(p, StartContourMessage, TRUE, "none")
    ELSE IF ndivs = 0 THEN PathLineTo(p, x)
    ELSE ArcCurves(Done(p), x, ndivs)

\* tpPathClose.
PathClose(p) ==
    IF HasCurrentContour(p) /\ Len(CurrentContour(p).segments) > 1
    THEN Done([p EXCEPT !.contours[p.currentContourIndex + 1].bIsClosed = TRUE,
                        !.contours[p.currentContourIndex + 1].bDirty = TRUE,
                        !.currentContourIndex = -1,
                        !.bPathGeometryDirty = TRUE])
    ELSE PathResult(p, CloseFailedMessage, FALSE, "none")

\* Removing the elements [from, to) of an array.
ArrayRemoveRange(a, from, to) ==
    SubSeq(a, 1, from) \o SubSeq(a, to + 1, Len(a))

\* tpPathRemoveContour that leaves the current contour index as it is.
PathRemoveContour_keepsIndex(p, index) ==
    LET cs == ArrayRemoveRange(p.contours, index, index + 1)
    IN  Done([p EXCEPT !.contours = cs,
                       !.bPathGeometryDirty = TRUE])

\* tpPathRemoveContour.
PathRemoveContour(p, index) ==
    LET cs == ArrayRemoveRange(p.contours, index, index + 1)
    IN  Done([p EXCEPT !.contours = cs,
                       !.bPathGeometryDirty = TRUE,
                       !.currentContourIndex = Len(cs) - 1])

\* tpPathRemoveSegments that leaves the contour's dirty flag as it is.
PathRemoveSegments_keepsClean(p, ci, from, to) ==
    Done([p EXCEPT !.contours[ci + 1].segments = ArrayRemoveRange(@, from, to),
                   !.bPathGeometryDirty = TRUE])

\* tpPathRemoveSegments.
PathRemoveSegments(p, ci, from, to) ==
    Done([p EXCEPT !.contours[ci + 1].segments = ArrayRemoveRange(@, from, to),
                   !.contours[ci + 1].bDirty = TRUE,
                   !.bPathGeometryDirty = TRUE])

\* tpPathRemoveSegment.
PathRemoveSegment(p, ci, index) == PathRemoveSegments(p, ci, index, index + 1)

\* tpPathAddSegments.
PathAddSegments(p, segs) ==
    LET p1 == IF HasCurrentContour(p) THEN p ELSE PathCreateNextContour(p)
    IN  Done(ContourAddSegments(p1, p1.currentContourIndex, segs))

\* tpPathAddContour.
PathAddContour(p, segs, bClosed) ==
    LET p1 == PathCreateNextContour(p)
        p2 == ContourAddSegments(p1, p1.currentContourIndex, segs)
    IN  IF bClosed THEN PathClose(p2) ELSE Done(p2)

\* tpPathSetContour that does not clear the segments of an existing contour.
PathSetContour_appends(p, ci, segs, bClosed) ==
    IF ci < Len(p.contours)
    THEN Done([p EXCEPT !.contours[ci + 1] =
                            [@ EXCEPT !.segments = @ \o segs,
                                      !.lastSegmentIndex = Len(segs) - 1,
                                      !.bIsClosed = TRUE,
                                      !.bDirty = TRUE],
                        !.bPathGeometryDirty = TRUE])
    ELSE PathAddContour(p, segs, bClosed)

\* tpPathSetContour.
PathSetContour(p, ci, segs, bClosed) ==
    IF ci < Len(p.contours)
    THEN Done([p EXCEPT !.contours[ci + 1] =
                            [@ EXCEPT !.segments = segs,
                                      !.lastSegmentIndex = Len(segs) - 1,
                                      !.bIsClosed = TRUE,
                                      !.bDirty = TRUE],
                        !.bPathGeometryDirty = TRUE])
    ELSE PathAddContour(p, segs, bClosed)

\* ------------------------------------------------------------------ actions
\* The context as a handler finds it, with an empty trace.
Machine(call) ==
    [stack |-> clippingStack, depth |-> clippingStackDepth,
     cur |-> currentClipStencilPlane, canSwap |-> bCanSwapStencilPlanes,
     rc |-> renderCaches, pool |-> clippingRenderCaches, stencil |-> stencil,
     trace |-> <<TraceEntry(call, NoCache, {}, 0, NoStencilFunc, 0, FALSE, {},
                            clippingStackDepth, currentClipStencilPlane,
                            bCanSwapStencilPlanes)>>]

\* The same for a call that issues no GL command.
Silent == [Machine("") EXCEPT !.trace = <<>>]

\* What a handler leaves behind.
Commit(m) ==
    /\ clippingStack' = m.stack
    /\ clippingStackDepth' = m.depth
    /\ currentClipStencilPlane' = m.cur
    /\ bCanSwapStencilPlanes' = m.canSwap
    /\ renderCaches' = m.rc
    /\ clippingRenderCaches' = m.pool
    /\ stencil' = m.stencil
    /\ glTrace' = m.trace

\* tpContextCreate, tpPathCreate, tpRenderCacheCreate; the stencil buffer of
\* the framebuffer starts cleared.
Init ==
    /\ clippingStack = <<>>
    /\ clippingStackDepth = 0
    /\ currentClipStencilPlane = kTpGLClippingStencilPlaneOne
    /\ bCanSwapStencilPlanes = TRUE
    /\ renderCaches = [r \in OwnedCaches |-> NewRenderCache]
    /\ clippingRenderCaches = <<>>
    /\ stencil = [pl \in ClipPlanes |-> {}]
    /\ pathContours = {}
    /\ bPathGeometryDirty = TRUE
    /\ pathRenderCache = FALSE
    /\ stackOverrun = FALSE
    /\ glTrace = <<>>
    /\ pushedMasks = <<>>
    /\ frame = [state |-> "none", depthAtBegin |-> 0, ends |-> 0,
                beginsSinceReset |-> 0, endsSinceReset |-> 0, beginsInARow |-> 0]
    /\ paths = [h \in PathHandles |-> IF h = "path" THEN NewPath ELSE NoPath]
    /\ errorMessage = ""
    /\ lastReturn = NoReturn
    /\ strayStore = FALSE
    /\ transform = tpTransformMakeIdentity
    /\ transformScale = 1
    /\ transformID = 0
    /\ projection = tpMat4MakeIdentity
    /\ projectionID = 0
    /\ bTransformProjDirty = FALSE
    /\ userCache = NewCache
    /\ stops = <<>>
    /\ gradientDirty = TRUE
    /\ finalizedFrom = <<>>
    /\ flatten = NotFlattening
    /\ dasher = NotDashing

\* tpPrepareDrawing: clears the whole stencil buffer and resets the clipping.
tpPrepareDrawing ==
    /\ ~stackOverrun
    /\ LET m1 == GLClearStencil(Machine("tpPrepareDrawing"), ClipPlanes, 0)
           m2 == [m1 EXCEPT !.canSwap = TRUE, !.cur = kTpGLClippingStencilPlaneOne,
                            !.depth = 0, !.stack = <<>>]
       IN  Commit(m2)
    /\ pushedMasks' = <<>>
    /\ UNCHANGED <<pathVars, stackOverrun>>

\* tpFinishDrawing: restores the caller's GL state; the context is left alone.
tpFinishDrawing ==
    /\ ~stackOverrun
    /\ Commit(Silent)
    /\ UNCHANGED <<pathVars, stackOverrun, pushedMasks>>

\* clippingStack[clippingStackDepth++] = _cache with clippingStackDepth = 64:
\* the store lands past the array, on clippingStackDepth itself (the next
\* member of the context).  The increment then leaves 65, or the stored
\* handle's bits stay in clippingStackDepth (-1 stands for them).
StorePastClippingStack(m) ==
    /\ clippingStackDepth >= TARP_GL_MAX_CLIPPING_STACK_DEPTH
    /\ stackOverrun' = TRUE
    /\ clippingStackDepth' \in {clippingStackDepth + 1, -1}
    /\ clippingStack' = m.stack
    /\ renderCaches' = m.rc
    /\ clippingRenderCaches' = m.pool
    /\ glTrace' = m.trace
    /\ UNCHANGED <<currentClipStencilPlane, bCanSwapStencilPlanes, stencil, pushedMasks>>

\* tpBeginClippingFromRenderCache(ctx, cache).
tpBeginClippingFromRenderCache(cache) ==
    /\ ~stackOverrun
    /\ \/ /\ clippingStackDepth < TARP_GL_MAX_CLIPPING_STACK_DEPTH
          /\ Commit(GenerateClippingMaskForRenderCache(
                        Machine("tpBeginClippingFromRenderCache"), cache, FALSE))
          /\ pushedMasks' = Append(pushedMasks, renderCaches[cache])
          /\ UNCHANGED stackOverrun
       \/ StorePastClippingStack(Machine("tpBeginClippingFromRenderCache"))
    /\ UNCHANGED pathVars

\* tpBeginClippingWithFillRule(ctx, path, rule) (tpBeginClipping passes
\* even-odd): _tpGLGenerateClippingMask.  The clipping style is tpStyleMake()
\* without stroke, with the fill rule of the call.  A path that never had
\* contours has no render cache to push (a null handle): not a call the
\* model makes.
tpBeginClippingWithFillRule(rule) ==
    /\ ~stackOverrun
    /\ pathContours # {} \/ pathRenderCache
    /\ LET u == UpdateInternalPathCache(
                    Machine("tpBeginClippingWithFillRule"),
                    [fillRule |-> rule, fill |-> "kTpPaintTypeColor"])
       IN  /\ bPathGeometryDirty' = u.dirty
           /\ pathRenderCache' = u.cache
           /\ UNCHANGED pathContours
           /\ \/ /\ clippingStackDepth < TARP_GL_MAX_CLIPPING_STACK_DEPTH
                 /\ Commit(GenerateClippingMaskForRenderCache(u.m, PathCache, FALSE))
                 /\ pushedMasks' =
                        [i \in 1..(Len(pushedMasks) + 1) |->
                            IF i <= Len(pushedMasks) THEN pushedMasks[i]
                            ELSE CacheContents(u.m, PathCache)]
                 /\ UNCHANGED stackOverrun
              \/ StorePastClippingStack(u.m)

\* tpEndClipping removing the oldest clip instead of the newest.
EndClipping_removesOldest(m) ==
    LET m1 == [m EXCEPT !.depth = @ - 1, !.stack = Tail(@)]
    IN  IF m1.depth # 0
        THEN IF m1.canSwap
             THEN [m1 EXCEPT !.cur = OtherClipPlane(@), !.canSwap = FALSE]
             ELSE RebuildClippingMasks(
                      GLClearStencil(
                          [m1 EXCEPT !.cur = kTpGLClippingStencilPlaneOne, !.canSwap = TRUE],
                          ClipPlanes, 0),
                      0)
        ELSE GLClearStencil(
                 [m1 EXCEPT !.cur = kTpGLClippingStencilPlaneOne, !.canSwap = TRUE],
                 ClipPlanes, 0)

\* tpEndClipping that swaps the planes back whatever bCanSwapStencilPlanes is.
EndClipping_alwaysSwaps(m) ==
    LET m1 == [m EXCEPT !.depth = @ - 1, !.stack = SubSeq(@, 1, Len(@) - 1)]
    IN  IF m1.depth # 0
        THEN [m1 EXCEPT !.cur = OtherClipPlane(@), !.canSwap = FALSE]
        ELSE GLClearStencil(
                 [m1 EXCEPT !.cur = kTpGLClippingStencilPlaneOne, !.canSwap = TRUE],
                 ClipPlanes, 0)

\* tpEndClipping whose swap branch leaves bCanSwapStencilPlanes set.
EndClipping_swapKeepsFlag(m) ==
    LET m1 == [m EXCEPT !.depth = @ - 1, !.stack = SubSeq(@, 1, Len(@) - 1)]
    IN  IF m1.depth # 0
        THEN IF m1.canSwap
             THEN [m1 EXCEPT !.cur = OtherClipPlane(@)]
             ELSE RebuildClippingMasks(
                      GLClearStencil(
                          [m1 EXCEPT !.cur = kTpGLClippingStencilPlaneOne, !.canSwap = TRUE],
                          ClipPlanes, 0),
                      0)
        ELSE GLClearStencil(
                 [m1 EXCEPT !.cur = kTpGLClippingStencilPlaneOne, !.canSwap = TRUE],
                 ClipPlanes, 0)

\* tpEndClipping whose depth-0 branch clears the planes but resets nothing.
EndClipping_noResetAtZero(m) ==
    LET m1 == [m EXCEPT !.depth = @ - 1, !.stack = SubSeq(@, 1, Len(@) - 1)]
    IN  IF m1.depth # 0
        THEN IF m1.canSwap
             THEN [m1 EXCEPT !.cur = OtherClipPlane(@), !.canSwap = FALSE]
             ELSE RebuildClippingMasks(
                      GLClearStencil(
                          [m1 EXCEPT !.cur = kTpGLClippingStencilPlaneOne, !.canSwap = TRUE],
                          ClipPlanes, 0),
                      0)
        ELSE GLClearStencil(m1, ClipPlanes, 0)

\* tpEndClipping past its assert: the depth is decremented; a remaining
\* depth swaps the planes back or rebuilds the masks, depth 0 clears both
\* planes and resets.
EndClipping(m) ==
    LET m1 == [m EXCEPT !.depth = @ - 1, !.stack = SubSeq(@, 1, Len(@) - 1)]
    IN  IF m1.depth # 0
        THEN IF m1.canSwap
             THEN [m1 EXCEPT !.cur = OtherClipPlane(@), !.canSwap = FALSE]
             ELSE RebuildClippingMasks(
                      GLClearStencil(
                          [m1 EXCEPT !.cur = kTpGLClippingStencilPlaneOne, !.canSwap = TRUE],
                          ClipPlanes, 0),
                      0)
        ELSE GLClearStencil(
                 [m1 EXCEPT !.cur = kTpGLClippingStencilPlaneOne, !.canSwap = TRUE],
                 ClipPlanes, 0)

\* tpEndClipping: assert(ctx->clippingStackDepth).
tpEndClipping ==
    /\ ~stackOverrun
    /\ clippingStackDepth > 0
    /\ Commit(EndClipping(Machine("tpEndClipping")))
    /\ pushedMasks' = SubSeq(pushedMasks, 1, Len(pushedMasks) - 1)
    /\ UNCHANGED <<pathVars, stackOverrun>>

\* tpResetClipping without its last assignment (clippingStackDepth = 0).
tpResetClipping_keepsDepth ==
    /\ ~stackOverrun
    /\ LET m1 == GLClearStencil(Machine("tpResetClipping"), ClipPlanes, 0)
           m2 == [m1 EXCEPT !.cur = kTpGLClippingStencilPlaneOne, !.canSwap = TRUE]
       IN  Commit(m2)
    /\ UNCHANGED <<pathVars, stackOverrun, pushedMasks>>

\* tpResetClipping.
tpResetClipping ==
    /\ ~stackOverrun
    /\ LET m1 == GLClearStencil(Machine("tpResetClipping"), ClipPlanes, 0)
           m2 == [m1 EXCEPT !.cur = kTpGLClippingStencilPlaneOne, !.canSwap = TRUE,
                            !.depth = 0, !.stack = <<>>]
       IN  Commit(m2)
    /\ pushedMasks' = <<>>
    /\ UNCHANGED <<pathVars, stackOverrun>>

\* tpDrawRenderCache(ctx, cache).
tpDrawRenderCache(cache) ==
    /\ ~stackOverrun
    /\ Commit(DrawRenderCacheImpl(Machine("tpDrawRenderCache"), cache, FALSE))
    /\ UNCHANGED <<pathVars, stackOverrun, pushedMasks>>

\* tpDrawPath(ctx, path, style): _tpGLDrawPathImpl.
tpDrawPath(style) ==
    /\ ~stackOverrun
    /\ pathContours # {} \/ pathRenderCache
    /\ LET u == UpdateInternalPathCache(Machine("tpDrawPath"), style)
       IN  /\ Commit(DrawRenderCacheImpl(u.m, PathCache, FALSE))
           /\ bPathGeometryDirty' = u.dirty
           /\ pathRenderCache' = u.cache
    /\ UNCHANGED <<pathContours, stackOverrun, pushedMasks>>

\* tpCachePath(ctx, path, style, cache): a full build into a user cache; the
\* path's dirty flags are left (the cache is not the path's own).
tpCachePath(style, cache) ==
    /\ ~stackOverrun
    /\ Commit(CachePathImpl(Silent, pathContours, style, cache))
    /\ UNCHANGED <<pathVars, stackOverrun, pushedMasks>>

\* tpPathSetContour(path, 0, segments, count, closed): the path's contour is
\* replaced (or added), the contour and the path geometry are marked dirty.
tpPathSetContour(contours) ==
    /\ ~stackOverrun
    /\ contours # {}
    /\ pathContours' = contours
    /\ bPathGeometryDirty' = TRUE
    /\ Commit(Silent)
    /\ UNCHANGED <<pathRenderCache, stackOverrun, pushedMasks>>

\* tpPathRemoveContour(path, 0): the path is left without contours.
tpPathRemoveContour ==
    /\ ~stackOverrun
    /\ pathContours # {}
    /\ pathContours' = {}
    /\ bPathGeometryDirty' = TRUE
    /\ Commit(Silent)
    /\ UNCHANGED <<pathRenderCache, stackOverrun, pushedMasks>>

\* ------------------------------------------------------------ path actions
\* A call on the context that returns no error and touches no path.
ContextCall(call) ==
    /\ lastReturn' = [NoReturn EXCEPT !.call = call]
    /\ UNCHANGED <<paths, errorMessage, strayStore>>

\* tpSetProjection.
tpSetProjection(proj) ==
    /\ projectionID < MaxID
    /\ projection' = proj
    /\ projectionID' = projectionID + 1
    /\ bTransformProjDirty' = TRUE
    /\ ContextCall("tpSetProjection")
    /\ UNCHANGED <<transform, transformScale, transformID, userCache, gradVars>>

\* tpSetTransform that takes the transform whether or not it is a new one.
tpSetTransform_alwaysIncrements(t) ==
    /\ transformID < MaxID
    /\ transform' = t
    /\ transformID' = transformID + 1
    /\ bTransformProjDirty' = TRUE
    /\ transformScale' = tpTransformScale(t)
    /\ ContextCall("tpSetTransform")
    /\ UNCHANGED <<projection, projectionID, userCache, gradVars>>

\* tpSetTransform.
tpSetTransform(t) ==
    /\ transformID < MaxID
    /\ IF ~tpTransformEquals(t, transform)
       THEN /\ transform' = t
            /\ transformID' = transformID + 1
            /\ bTransformProjDirty' = TRUE
            /\ transformScale' = tpTransformScale(t)
       ELSE UNCHANGED <<transform, transformID, bTransformProjDirty, transformScale>>
    /\ ContextCall("tpSetTransform")
    /\ UNCHANGED <<projection, projectionID, userCache, gradVars>>

\* tpResetTransform.
tpResetTransform ==
    /\ transformID < MaxID
    /\ transform' = tpTransformMakeIdentity
    /\ transformScale' = 1
    /\ transformID' = transformID + 1
    /\ bTransformProjDirty' = TRUE
    /\ ContextCall("tpResetTransform")
    /\ UNCHANGED <<projection, projectionID, userCache, gradVars>>

\* The builder has no contour under way: there is no current contour, or no
\* segment was ever put on it.
NotStarted(p) ==
    \/ ~HasCurrentContour(p)
    \/ Len(CurrentContour(p).segments) = 0 /\ CurrentContour(p).lastSegmentIndex = -1

\* The sizes explored.
WithinBounds(p) ==
    /\ Len(p.contours) <= MaxContours
    /\ \A i \in 1..Len(p.contours) : Len(p.contours[i].segments) <= MaxSegments

\* A call on the path h that gave r; contour is the index of the contour it
\* worked on.  A store outside the segment array hits nothing the model
\* holds, or the handleOut of a segment of one of the paths.
PathCall(h, call, contour, r) ==
    /\ ~strayStore
    /\ paths[h] # NoPath
    /\ WithinBounds(r.path)
    /\ IF r.store = "stray"
       THEN \E g \in PathHandles, k \in 1..MaxContours, j \in 1..MaxSegments, v \in Coords :
               LET ps == [paths EXCEPT ![h] = r.path]
               IN  IF ps[g] # NoPath /\ k <= Len(ps[g].contours)
                      /\ j <= Len(ps[g].contours[k].segments)
                   THEN paths' = [ps EXCEPT ![g].contours[k].segments[j].handleOut = v]
                   ELSE paths' = ps
       ELSE paths' = [paths EXCEPT ![h] = r.path]
    /\ errorMessage' = IF r.message = "" THEN errorMessage ELSE r.message
    /\ lastReturn' = [call |-> call, path |-> h, ret |-> r.ret, message |-> r.message,
                      notStarted |-> NotStarted(paths[h]), contour |-> contour]
    /\ strayStore' = (r.store = "stray")

\* The contour a builder call works on: the current one, or the one it makes.
BuilderContour(p) ==
    IF HasCurrentContour(p) THEN p.currentContourIndex ELSE Len(p.contours)

tpPathMoveTo(h, x) ==
    PathCall(h, "tpPathMoveTo", PathNextEmptyContour(paths[h]).currentContourIndex,
             PathMoveTo(paths[h], x))

tpPathLineTo(h, x) ==
    PathCall(h, "tpPathLineTo", paths[h].currentContourIndex, PathLineTo(paths[h], x))

tpPathCubicCurveTo(h, h0, h1, px) ==
    PathCall(h, "tpPathCubicCurveTo", paths[h].currentContourIndex,
             PathCubicCurveTo(paths[h], h0, h1, px))

tpPathQuadraticCurveTo(h, hx, px) ==
    PathCall(h, "tpPathQuadraticCurveTo", paths[h].currentContourIndex,
             PathQuadraticCurveTo(paths[h], hx, px))

tpPathArcTo(h, x, ndivs) ==
    PathCall(h, "tpPathArcTo", paths[h].currentContourIndex, PathArcTo(paths[h], x, ndivs))

tpPathClose(h) ==
    PathCall(h, "tpPathClose", paths[h].currentContourIndex, PathClose(paths[h]))

tpPathClear(h) ==
    PathCall(h, "tpPathClear", -1, PathClear(paths[h]))

tpPathRemoveContourAt(h, index) ==
    /\ index < Len(paths[h].contours)
    /\ PathCall(h, "tpPathRemoveContour", -1, PathRemoveContour(paths[h], index))

tpPathRemoveSegment(h, ci, index) ==
    /\ ci < Len(paths[h].contours)
    /\ index < Len(paths[h].contours[ci + 1].segments)
    /\ PathCall(h, "tpPathRemoveSegment", ci, PathRemoveSegment(paths[h], ci, index))

tpPathRemoveSegments(h, ci, from, to) ==
    /\ ci < Len(paths[h].contours)
    /\ from <= to
    /\ to <= Len(paths[h].contours[ci + 1].segments)
    /\ PathCall(h, "tpPathRemoveSegments", ci, PathRemoveSegments(paths[h], ci, from, to))

tpPathAddSegment(h, h0, px, h1) ==
    PathCall(h, "tpPathAddSegment", BuilderContour(paths[h]),
             PathAddSegment(paths[h], h0, px, h1))

tpPathAddSegments(h, segs) ==
    PathCall(h, "tpPathAddSegments", BuilderContour(paths[h]),
             PathAddSegments(paths[h], segs))

tpPathAddContour(h, segs, bClosed) ==
    PathCall(h, "tpPathAddContour", Len(paths[h].contours),
             PathAddContour(paths[h], segs, bClosed))

tpPathSetContourSegments(h, ci, segs, bClosed) ==
    PathCall(h, "tpPathSetContour",
             IF ci < Len(paths[h].contours) THEN ci ELSE Len(paths[h].contours),
             PathSetContour(paths[h], ci, segs, bClosed))

\* What the lastSegmentIndex of a cloned contour can hold: tpPathClone never
\* assigns the field of its local contour.
UninitializedIndices == (-2)..(MaxSegments - 1)

\* tpPathClone: a new path with a copy of every contour of the path h, its
\* current contour index and its marks; no render cache.
tpPathClone(h) ==
    /\ ~strayStore
    /\ paths[h] # NoPath
    /\ \E index \in [1..Len(paths[h].contours) -> UninitializedIndices] :
          paths' = [paths EXCEPT !["clone"] =
                       [paths[h] EXCEPT
                           !.contours = [i \in 1..Len(paths[h].contours) |->
                                            [paths[h].contours[i] EXCEPT
                                                !.lastSegmentIndex = index[i]]],
                           !.renderCache = NullCache]]
    /\ lastReturn' = [NoReturn EXCEPT !.call = "tpPathClone", !.path = "clone"]
    /\ UNCHANGED <<errorMessage, strayStore>>

\* tpGradientAddColorStop.
tpGradientAddColorStop(color, offset) ==
    /\ Len(stops) < MaxStops
    /\ stops' = Append(stops, tpColorStopMake(color, offset))
    /\ gradientDirty' = TRUE
    /\ lastReturn' = [NoReturn EXCEPT !.call = "tpGradientAddColorStop"]
    /\ UNCHANGED finalizedFrom

\* tpGradientClearColorStops.
tpGradientClearColorStops ==
    /\ stops' = <<>>
    /\ gradientDirty' = TRUE
    /\ lastReturn' = [NoReturn EXCEPT !.call = "tpGradientClearColorStops"]
    /\ UNCHANGED finalizedFrom

\* _tpGLCacheGradientGeometry, when a path painted with the gradient is
\* cached: a dirty gradient has its stops finalized.
CacheGradientGeometry ==
    /\ gradientDirty
    /\ gradientDirty' = FALSE
    /\ \E atFirst \in StrayColors, atLast \in StrayColors :
          stops' = FinalizeColorStops(stops, atFirst, atLast)
    /\ finalizedFrom' = stops
    /\ lastReturn' = [NoReturn EXCEPT !.call = "_tpGLFinalizeColorStops"]

\* tpDrawPath, its geometry: _tpGLDrawPathImpl brings the path's internal
\* cache up to date; the transform projection is recomputed by a build.
tpDrawPathGeometry(h, style) ==
    /\ ~strayStore
    /\ paths[h] # NoPath
    /\ LET d == InternalCacheDirt(paths[h], style)
           builds == paths[h].contours # <<>> /\ (d.geometry \/ d.stroke \/ d.transform)
       IN  /\ ~(builds /\ CacheFault(d.path, paths[h].renderCache, d.geometry))
           /\ bTransformProjDirty' = (IF builds THEN FALSE ELSE bTransformProjDirty)
    /\ paths' = [paths EXCEPT ![h] = UpdateInternalCache(paths[h], style)]
    /\ lastReturn' = [NoReturn EXCEPT !.call = "tpDrawPath", !.path = h]
    /\ UNCHANGED <<errorMessage, strayStore, userCache, gradVars>>
    /\ UNCHANGED <<transform, transformScale, transformID, projection, projectionID>>

\* tpCachePath that builds the user's cache as if it were the path's own.
tpCachePathGeometry_cleansContours(h, style) ==
    /\ ~strayStore
    /\ paths[h] # NoPath
    /\ ~CacheFault(paths[h], paths[h].renderCache, TRUE)
    /\ LET r == CachePathGeometry(paths[h], style, paths[h].renderCache, userCache,
                                  TRUE, TRUE, TRUE)
       IN  /\ paths' = [paths EXCEPT ![h] = r.path]
           /\ userCache' = r.cache
    /\ bTransformProjDirty' = (IF paths[h].contours = <<>> THEN bTransformProjDirty ELSE FALSE)
    /\ lastReturn' = [NoReturn EXCEPT !.call = "tpCachePath", !.path = h]
    /\ UNCHANGED <<errorMessage, strayStore, gradVars>>
    /\ UNCHANGED <<transform, transformScale, transformID, projection, projectionID>>

\* tpCachePath, its geometry: _tpGLCachePathImpl into the user's cache, with
\* the path's internal cache as the old cache and every dirty flag set.
tpCachePathGeometry(h, style) ==
    /\ ~strayStore
    /\ paths[h] # NoPath
    /\ ~CacheFault(paths[h], paths[h].renderCache, TRUE)
    /\ LET r == CachePathGeometry(paths[h], style, paths[h].renderCache, userCache,
                                  FALSE, TRUE, TRUE)
       IN  /\ paths' = [paths EXCEPT ![h] = r.path]
           /\ userCache' = r.cache
    /\ bTransformProjDirty' = (IF paths[h].contours = <<>> THEN bTransformProjDirty ELSE FALSE)
    /\ lastReturn' = [NoReturn EXCEPT !.call = "tpCachePath", !.path = h]
    /\ UNCHANGED <<errorMessage, strayStore, gradVars>>
    /\ UNCHANGED <<transform, transformScale, transformID, projection, projectionID>>

\* ----------------------------------------------------------- specifications
OnClippingStack(cache) == \E i \in 1..Len(clippingStack) : clippingStack[i] = cache

BeginClippingCalls == {"tpBeginClippingFromRenderCache", "tpBeginClippingWithFillRule"}

\* The calls of a client that nests at most `nest` clips, draws and caches
\* with `styles`, clips with `rules`, and (unless `rebuilds`) does not
\* rebuild a cache that is on the clipping stack.
Calls(styles, rules, nest, rebuilds) ==
    \/ tpPrepareDrawing
    \/ tpFinishDrawing
    \/ \E cache \in UserCaches :
          clippingStackDepth < nest /\ tpBeginClippingFromRenderCache(cache)
    \/ \E rule \in rules :
          clippingStackDepth < nest /\ tpBeginClippingWithFillRule(rule)
    \/ tpEndClipping
    \/ tpResetClipping
    \/ \E cache \in UserCaches : tpDrawRenderCache(cache)
    \/ \E style \in styles : tpDrawPath(style)
    \/ \E style \in styles, cache \in UserCaches :
          (rebuilds \/ ~OnClippingStack(cache)) /\ tpCachePath(style, cache)
    \/ \E contours \in SUBSET Pixels :
          (rebuilds \/ ~OnClippingStack(PathCache)) /\ tpPathSetContour(contours)
    \/ (rebuilds \/ ~OnClippingStack(PathCache)) /\ tpPathRemoveContour

\* Spec: caches are rebuilt at any time, also while they are on the clipping
\* stack; one style.
EvenOddColor == {s \in Styles : s.fillRule = "kTpFillRuleEvenOdd" /\ s.fill = "kTpPaintTypeColor"}

Next == Calls(EvenOddColor, {"kTpFillRuleEvenOdd"}, MaxNestRebuilt, TRUE)

Spec == Init /\ [][Next /\ UNCHANGED <<strokeVars, frame, builderVars, geomVars>>]_vars

\* SpecNest: every style and fill rule, deeper nesting; a cache is not rebuilt
\* while it is on the clipping stack.
NextNest == Calls(Styles, FillRules, MaxNest, FALSE)

\* frame.beginsInARow: how many clips were begun since the last call that
\* removed one (2 stands for two or more).
BeginsInARow ==
    IF glTrace' = <<>> THEN frame.beginsInARow
    ELSE IF glTrace'[1].call \in BeginClippingCalls
         THEN (IF frame.beginsInARow = 0 THEN 1 ELSE 2)
    ELSE IF glTrace'[1].call \in {"tpEndClipping", "tpResetClipping", "tpPrepareDrawing"}
         THEN 0
    ELSE frame.beginsInARow

SpecNest ==
    Init /\ [][/\ NextNest
                /\ frame' = [frame EXCEPT !.beginsInARow = BeginsInARow]
                /\ UNCHANGED <<strokeVars, builderVars, geomVars>>]_vars

\* SpecDeep: the whole clipping stack array, up to the store past it.  The
\* path is pushed on the lowest and on the last levels only.
NextDeep ==
    \/ tpPrepareDrawing
    \/ \E cache \in UserCaches : tpBeginClippingFromRenderCache(cache)
    \/ /\ \/ clippingStackDepth < MaxNest
          \/ clippingStackDepth >= TARP_GL_MAX_CLIPPING_STACK_DEPTH - 1
       /\ tpBeginClippingWithFillRule("kTpFillRuleEvenOdd")
    \/ tpEndClipping
    \/ tpResetClipping
    \/ \E cache \in UserCaches : tpDrawRenderCache(cache)
    \/ \E style \in EvenOddColor, cache \in UserCaches :
          clippingStackDepth = 0 /\ tpCachePath(style, cache)
    \/ clippingStackDepth = 0 /\ tpPathSetContour(Pixels)

SpecDeep == Init /\ [][NextDeep /\ UNCHANGED <<strokeVars, frame, builderVars, geomVars>>]_vars

\* SpecFrame: frames of tpPrepareDrawing ... tpFinishDrawing with the
\* clipping calls made inside them counted in frame.
NextFrame ==
    \/ /\ tpPrepareDrawing
       /\ frame' = [state |-> "open", depthAtBegin |-> clippingStackDepth', ends |-> 0,
                    beginsSinceReset |-> 0, endsSinceReset |-> 0, beginsInARow |-> 0]
    \/ /\ frame.state = "open"
       /\ \E cache \in UserCaches :
             clippingStackDepth < MaxNest /\ tpBeginClippingFromRenderCache(cache)
       /\ frame' = [frame EXCEPT !.beginsSinceReset = @ + 1]
    \/ /\ frame.state = "open"
       /\ frame.ends < MaxEndsPerFrame
       /\ tpEndClipping
       /\ frame' = [frame EXCEPT !.ends = @ + 1, !.endsSinceReset = @ + 1]
    \/ /\ frame.state = "open"
       /\ tpResetClipping
       /\ frame' = [frame EXCEPT !.beginsSinceReset = 0, !.endsSinceReset = 0]
    \/ /\ frame.state = "open"
       /\ \E cache \in UserCaches : tpDrawRenderCache(cache)
       /\ UNCHANGED frame
    \/ /\ frame.state = "open"
       /\ tpFinishDrawing
       /\ frame' = [frame EXCEPT !.state = "finished"]
    \/ /\ \E style \in EvenOddColor, cache \in UserCaches :
             ~OnClippingStack(cache) /\ tpCachePath(style, cache)
       /\ UNCHANGED frame
    \/ /\ \E contours \in SUBSET Pixels : tpPathSetContour(contours)
       /\ UNCHANGED frame

SpecFrame == Init /\ [][NextFrame /\ UNCHANGED <<strokeVars, builderVars, geomVars>>]_vars

\* SpecPath: the path API on one path.
NextPath ==
    \/ \E x \in Coords : tpPathMoveTo("path", x)
    \/ \E x \in Coords : tpPathLineTo("path", x)
    \/ tpPathCubicCurveTo("path", 1, 1, 1)
    \/ tpPathQuadraticCurveTo("path", 0, 0)
    \/ \E x \in Coords, ndivs \in 0..MaxArcDivs : tpPathArcTo("path", x, ndivs)
    \/ tpPathClose("path")
    \/ tpPathClear("path")
    \/ \E index \in 0..(MaxContours - 1) : tpPathRemoveContourAt("path", index)
    \/ \E ci \in 0..(MaxContours - 1), index \in 0..(MaxSegments - 1) :
          tpPathRemoveSegment("path", ci, index)
    \/ \E ci \in 0..(MaxContours - 1), from \in 0..MaxSegments, to \in 0..MaxSegments :
          tpPathRemoveSegments("path", ci, from, to)
    \/ \E s \in InputSegments : tpPathAddSegment("path", s.handleIn, s.position, s.handleOut)
    \/ \E segs \in SegmentLists : tpPathAddSegments("path", segs)
    \/ \E segs \in SegmentLists, bClosed \in BOOLEAN : tpPathAddContour("path", segs, bClosed)
    \/ \E ci \in 0..MaxContours, segs \in SegmentLists, bClosed \in BOOLEAN :
          tpPathSetContourSegments("path", ci, segs, bClosed)

SpecPath == Init /\ [][NextPath /\ UNCHANGED <<strokeVars, clipVars, frame, geomVars>>]_vars

\* SpecCache: one path is built, drawn and cached under changing transforms.
FixedStroke == {style \in StrokeStyles : ~style.scaleStroke}

NextCache ==
    \/ /\ \/ tpPathLineTo("path", 0)
          \/ \E index \in 0..(MaxContours - 1) : tpPathRemoveContourAt("path", index)
          \/ tpPathAddContour("path", <<tpSegmentMake(0, 1, 1)>>, FALSE)
       /\ UNCHANGED geomVars
    \/ \E style \in FixedStroke : tpDrawPathGeometry("path", style)
    \/ \E style \in FixedStroke : StyleHasStroke(style) /\ tpCachePathGeometry("path", style)
    \/ \E t \in Transforms : transformID < MaxTransformChanges /\ tpSetTransform(t)

SpecCache == Init /\ [][NextCache /\ UNCHANGED <<strokeVars, clipVars, frame>>]_vars

\* SpecDirty: one path is modified between draws that clean its dirty flags.
NoStroke == {style \in FixedStroke : ~StyleHasStroke(style)}

NextDirty ==
    \/ /\ \/ tpPathMoveTo("path", 1)
          \/ tpPathLineTo("path", 1)
          \/ tpPathCubicCurveTo("path", 1, 1, 1)
          \/ tpPathQuadraticCurveTo("path", 1, 1)
          \/ tpPathArcTo("path", 1, MaxArcDivs)
          \/ tpPathClose("path")
          \/ \E ci \in 0..(MaxContours - 1) : tpPathRemoveSegment("path", ci, 0)
          \/ \E ci \in 0..(MaxContours - 1) : tpPathRemoveSegments("path", ci, 0, MaxSegments)
          \/ tpPathAddSegment("path", 1, 1, 1)
          \/ tpPathAddSegments("path", <<tpSegmentMake(1, 1, 1)>>)
          \/ tpPathAddContour("path", <<tpSegmentMake(1, 1, 1)>>, FALSE)
          \/ \E ci \in 0..(MaxContours - 1) :
                tpPathSetContourSegments("path", ci, <<tpSegmentMake(1, 1, 1)>>, FALSE)
       /\ UNCHANGED geomVars
    \/ \E style \in NoStroke : tpDrawPathGeometry("path", style)

SpecDirty == Init /\ [][NextDirty /\ UNCHANGED <<strokeVars, clipVars, frame>>]_vars

\* SpecClone: a path is built and cloned, and both are modified.
NextClone ==
    \/ \E segs \in SegmentLists : segs # <<>> /\ tpPathAddContour("path", segs, FALSE)
    \/ tpPathClone("path")
    \/ \E h \in PathHandles : tpPathLineTo(h, 0)
    \/ \E h \in PathHandles : tpPathCubicCurveTo(h, 0, 0, 0)
    \/ \E h \in PathHandles : tpPathRemoveSegment(h, 0, 0)

SpecClone == Init /\ [][NextClone /\ UNCHANGED <<strokeVars, clipVars, frame, geomVars>>]_vars

\* SpecGradient: the stops of one gradient.
NextGradient ==
    \/ \E color \in Colors, offset \in Offsets : tpGradientAddColorStop(color, offset)
    \/ tpGradientClearColorStops
    \/ CacheGradientGeometry

SpecGradient ==
    Init /\ [][/\ NextGradient
                /\ UNCHANGED <<strokeVars, clipVars, frame, xfVars, cacheVars>>
                /\ UNCHANGED <<paths, errorMessage, strayStore>>]_vars

\* SpecTransform: the transform and the projection of the context.
NextTransform ==
    \/ \E t \in Transforms : tpSetTransform(t)
    \/ tpResetTransform
    \/ \E proj \in Projections : tpSetProjection(proj)

SpecTransform == Init /\ [][NextTransform /\ UNCHANGED <<strokeVars, clipVars, frame>>]_vars

\* SpecScale: one path is drawn under every style while the transform's scale
\* goes up and down.
NextScale ==
    \/ /\ \/ tpPathAddContour("path", <<tpSegmentMake(1, 1, 1)>>, FALSE)
          \/ tpPathLineTo("path", 1)
       /\ UNCHANGED geomVars
    \/ \E style \in StrokeStyles : tpDrawPathGeometry("path", style)
    \/ \E t \in Transforms : transformID < MaxScaleChanges /\ tpSetTransform(t)

SpecScale == Init /\ [][NextScale /\ UNCHANGED <<strokeVars, clipVars, frame>>]_vars

\* SpecFlatten: curves are flattened one after the other; a loop that was
\* entered goes on.
NextFlatten ==
    \/ \E curve \in Curves : tpGLFlattenCurve(curve)
    \/ tpGLFlattenCurveStep

SpecFlatten ==
    /\ Init
    /\ [][NextFlatten /\ UNCHANGED <<clipVars, frame, builderVars, geomVars, dasher>>]_vars
    /\ WF_flatten(tpGLFlattenCurveStep)

\* SpecDash: contours are stroked with dash arrays one after the other; a
\* traversal that was entered goes on.
SegmentLengths == {1, 3}
Polylines == UNION {[1..n -> SegmentLengths] : n \in 1..MaxPolylineSegments}
DashArrays == UNION {[1..n -> DashLengths] : n \in 1..MaxDashCount}
DashOffsets == (-MaxDashOffset)..MaxDashOffset

NextDash ==
    \/ \E segments \in Polylines, bIsClosed \in BOOLEAN, dashArray \in DashArrays,
          dashOffset \in DashOffsets :
          /\ dashOffset # 0 => SumTo(dashArray, Len(dashArray)) > 0
          /\ tpGLDashedStrokeGeometry(segments, bIsClosed, dashArray, dashOffset)
    \/ tpGLDashedStrokeGeometry(<<100>>, FALSE, <<10, 5>>, 0)
    \/ tpGLDashSegment
    \/ tpGLDashStep

SpecDash ==
    /\ Init
    /\ [][NextDash /\ UNCHANGED <<clipVars, frame, builderVars, geomVars, flatten>>]_vars
    /\ WF_dasher(tpGLDashSegment \/ tpGLDashStep)

\* ------------------------------------------------------------------- claims
\* The call of the last step ("" when it issued no GL command).
LastCall == IF glTrace = <<>> THEN "" ELSE glTrace[1].call

\* The clip mask generations of a trace, in order.
MaskGenerations(trace) == SelectSeq(trace, LAMBDA e : e.call = "generateClippingMask")

\* The pixels inside every clip mask of a stack of caches.
InsideAllClips(stack, rc, pool) ==
    {p \in Pixels :
        \A i \in 1..Len(stack) :
            LET c == CacheContents([rc |-> rc, pool |-> pool], stack[i])
            IN  c.contours # 0 /\ p \in c.cover}

\* The plane that is not `plane`.
PlaneOtherThan(plane) == CHOOSE pl \in ClipPlanes : pl # plane

\* C1 (as claimed): after any sequence of beginFrame, beginClipping (from a
\* path or a render cache), endClipping, resetClipping and draw calls, the
\* clipping stack depth never exceeds 64.
C1_DepthNeverExceedsMax ==
    clippingStackDepth <= TARP_GL_MAX_CLIPPING_STACK_DEPTH

\* C9 (as claimed): a beginClipping call made while the clipping stack holds
\* 64 entries is stopped before it stores anything, so no entry is ever
\* written past the 64-slot stack array.
C9_NoStorePastStack ==
    ~stackOverrun

\* C8 (as claimed): at endFrame the clipping stack depth equals the depth at
\* beginFrame minus the number of endClipping calls made in the frame.
C8_DepthAtEndFrame_AsClaimed ==
    frame.state = "finished" =>
        clippingStackDepth = frame.depthAtBegin - frame.ends

\* C8 (amended): at endFrame the clipping stack depth equals the number of
\* beginClipping calls minus the number of endClipping calls made in the
\* frame since its last resetClipping (since beginFrame when there was none).
C8_DepthAtEndFrame ==
    frame.state = "finished" =>
        clippingStackDepth = frame.beginsSinceReset - frame.endsSinceReset

\* C8 witness: a finished frame in which clips were begun and ended and one
\* is still on the stack.
C8_Witness ==
    /\ frame.state = "finished"
    /\ frame.ends >= 2
    /\ frame.endsSinceReset >= 1
    /\ clippingStackDepth >= 1

\* C2 (as claimed): with clip A pushed and then clip B pushed, after one
\* endClipping the plane that draws test against holds the mask of A (inside
\* the clips below it), and the endClipping did not draw A's mask again.
C2_EndClippingKeepsOuterMask_AsClaimed ==
    [][(/\ glTrace' # <<>>
        /\ glTrace'[1].call = "tpEndClipping"
        /\ frame.beginsInARow = 2)
       => (/\ stencil'[PlaneOtherThan(currentClipStencilPlane')] =
                 Pixels \ InsideAllClips(clippingStack', renderCaches', clippingRenderCaches')
           /\ MaskGenerations(glTrace') = <<>>)]_vars

\* C4 (as claimed): every successful beginClipping flips currentClipPlane to
\* the other plane and leaves canSwap true, whatever canSwap was before.
C4_BeginClippingSetsCanSwap_AsClaimed ==
    (LastCall \in BeginClippingCalls /\ ~stackOverrun) =>
        /\ currentClipStencilPlane = PlaneOtherThan(glTrace[1].cur)
        /\ bCanSwapStencilPlanes = TRUE

\* C5: an endClipping that leaves depth > 0 while canSwap is true only flips
\* currentClipPlane back and sets canSwap to false: it issues no stencil clear
\* and generates no clip mask.
C5_SwapOnlyFlips ==
    (LastCall = "tpEndClipping" /\ clippingStackDepth > 0 /\ glTrace[1].canSwap) =>
        /\ currentClipStencilPlane = PlaneOtherThan(glTrace[1].cur)
        /\ bCanSwapStencilPlanes = FALSE
        /\ Len(glTrace) = 1

\* C5 witness: the swap was taken with two clips left on the stack.
C5_Witness ==
    /\ LastCall = "tpEndClipping"
    /\ glTrace[1].canSwap
    /\ clippingStackDepth = 2
    /\ bCanSwapStencilPlanes = FALSE

\* C6: an endClipping that leaves depth > 0 while canSwap is false clears both
\* clip planes and then generates the clipping mask of every cache left on
\* the stack, in stack order from the bottom; the stack is the old one
\* without its top entry.
C6_RebuildReplaysStack ==
    [][(/\ glTrace' # <<>>
        /\ glTrace'[1].call = "tpEndClipping"
        /\ clippingStackDepth' > 0
        /\ ~bCanSwapStencilPlanes)
       => (/\ glTrace'[2].call = "glClear"
           /\ glTrace'[2].planes = ClipPlanes
           /\ glTrace'[2].value = 0
           /\ LET gens == MaskGenerations(glTrace')
              IN  /\ [i \in 1..Len(gens) |-> gens[i].cache] = clippingStack'
                  /\ \A i \in 1..Len(gens) : gens[i].depth = clippingStackDepth'
           /\ clippingStack' = SubSeq(clippingStack, 1, Len(clippingStack) - 1)
           /\ clippingStackDepth' = clippingStackDepth - 1)]_vars

\* C6 witness: a rebuild that replayed two different caches.
C6_Witness ==
    /\ LastCall = "tpEndClipping"
    /\ ~glTrace[1].canSwap
    /\ clippingStackDepth = 2
    /\ clippingStack[1] # clippingStack[2]
    /\ Len(MaskGenerations(glTrace)) = 2

\* C7: when endClipping brings the depth to 0, both clip planes are cleared
\* and currentClipPlane and canSwap have the values resetClipping and context
\* creation give them: plane one, canSwap true.
C7_EndAtZeroResets ==
    (\/ LastCall = "tpEndClipping" /\ clippingStackDepth = 0
     \/ LastCall = "tpResetClipping") =>
        /\ stencil = [pl \in ClipPlanes |-> {}]
        /\ currentClipStencilPlane = kTpGLClippingStencilPlaneOne
        /\ bCanSwapStencilPlanes = TRUE

\* C7 witness: the last clip was ended with plane two current, canSwap false
\* and a mask in a plane.
C7_Witness ==
    /\ LastCall = "tpEndClipping"
    /\ clippingStackDepth = 0
    /\ glTrace[1].cur = kTpGLClippingStencilPlaneTwo
    /\ ~glTrace[1].canSwap

\* C10: every fill raster draw sets the stencil function EQUAL with ref 0 and
\* the mask of the clip plane other than currentClipPlane when the clip depth
\* is > 0, and ALWAYS when it is 0.
C10_FillStencilFunc ==
    \A i \in 1..Len(glTrace) :
        glTrace[i].call = "fill" =>
            /\ glTrace[i].ref = 0
            /\ IF glTrace[i].depth > 0
               THEN /\ glTrace[i].func = "GL_EQUAL"
                    /\ glTrace[i].mask = PlaneOtherThan(glTrace[i].cur)
               ELSE glTrace[i].func = "GL_ALWAYS"

\* C10 witness: a draw under two clips with plane one current, of which the
\* clip let one pixel through.
C10_Witness ==
    /\ LastCall = "tpDrawRenderCache"
    /\ clippingStackDepth = 2
    /\ Len(glTrace) = 2
    /\ glTrace[2].call = "fill"
    /\ glTrace[2].func = "GL_EQUAL"
    /\ glTrace[2].mask = kTpGLClippingStencilPlaneTwo
    /\ Cardinality(glTrace[2].painted) = 1
    /\ Cardinality(renderCaches[glTrace[2].cache].cover) = 2

\* C3 (as claimed): on the push of a user cache the context copies it into
\* the pool slot of that stack level, and the level refers to that copy.
C3_PushCopiesIntoPool_AsClaimed ==
    (LastCall = "tpBeginClippingFromRenderCache" /\ ~stackOverrun) =>
        /\ clippingStack[clippingStackDepth] = PoolSlot(clippingStackDepth - 1)
        /\ (clippingStackDepth - 1) \in DOMAIN clippingRenderCaches

\* C3: a pushed cache is held by reference until it is cached again while on
\* the stack; at that moment its contents are copied into the pool slot of
\* every level that holds it. So at every level the contents the context
\* holds are those of push time, and the plane draws test against (also
\* after a rebuild) is the mask of the push-time contents.
C3_MaskIsThatOfPushTime ==
    /\ Len(pushedMasks) = Len(clippingStack)
    /\ \A i \in 1..Len(clippingStack) :
          /\ CacheContents([rc |-> renderCaches, pool |-> clippingRenderCaches],
                           clippingStack[i]) = pushedMasks[i]
          /\ clippingStack[i][1] = "pool" => clippingStack[i] = PoolSlot(i - 1)
    /\ clippingStackDepth > 0 =>
          stencil[PlaneOtherThan(currentClipStencilPlane)] =
              Pixels \ {p \in Pixels :
                           \A i \in 1..Len(pushedMasks) :
                               pushedMasks[i].contours # 0 /\ p \in pushedMasks[i].cover}

\* C3 witness: a user cache was changed while on the stack, and the mask of
\* its level was then rebuilt from the pool copy.
C3_Witness ==
    /\ LastCall = "tpEndClipping"
    /\ Len(MaskGenerations(glTrace)) = 1
    /\ clippingStack = <<PoolSlot(0)>>
    /\ \E c \in UserCaches : renderCaches[c] # pushedMasks[1]
    /\ pushedMasks[1].contours # 0

\* C11: clipping calls nest: a beginClipping puts its clip on top of the
\* clips begun before it, an endClipping removes exactly the clip begun last
\* among those still active and leaves the earlier ones in the order they
\* were begun, and a drawing call leaves the stack as it is.
C11_ClippingNests ==
    [][IF glTrace' # <<>> /\ glTrace'[1].call = "tpEndClipping"
       THEN /\ clippingStack # <<>>
            /\ clippingStack' = SubSeq(clippingStack, 1, Len(clippingStack) - 1)
            /\ clippingStackDepth' = Len(clippingStack')
       ELSE IF glTrace' # <<>> /\ glTrace'[1].call \in BeginClippingCalls /\ ~stackOverrun'
       THEN /\ clippingStack' =
                   Append(clippingStack, MaskGenerations(glTrace')[1].cache)
            /\ clippingStackDepth' = Len(clippingStack')
       ELSE IF glTrace' # <<>> /\ glTrace'[1].call \in {"tpDrawRenderCache", "tpDrawPath"}
       THEN clippingStack' = clippingStack /\ clippingStackDepth' = clippingStackDepth
       ELSE TRUE]_vars

\* C11 witness: of three clips begun, the path's between two of a user cache,
\* the last was ended by a swap and the first two remain in order.
C11_Witness ==
    /\ LastCall = "tpEndClipping"
    /\ glTrace[1].canSwap
    /\ glTrace[1].depth = 3
    /\ clippingStack = <<CHOOSE c \in UserCaches : TRUE, PathCache>>

\* The calls of the builder that continue or close the contour under way.
BuilderCalls ==
    {"tpPathLineTo", "tpPathCubicCurveTo", "tpPathQuadraticCurveTo", "tpPathArcTo",
     "tpPathClose"}

\* What a caller can read of a path: its contours' segments and closed
\* flags, and which contour is the current one.
PathContents(p) ==
    [contours |-> [i \in 1..Len(p.contours) |->
                      [segments |-> p.contours[i].segments,
                       bIsClosed |-> p.contours[i].bIsClosed]],
     currentContourIndex |-> p.currentContourIndex]

\* C12 (as claimed): lineTo, cubicCurveTo, quadraticCurveTo, arcTo and close,
\* called when no contour was started, return true ("error occurred") and
\* set the error message.
C12_BuilderMisuseReturnsError_AsClaimed ==
    (lastReturn.call \in BuilderCalls /\ lastReturn.notStarted) =>
        /\ lastReturn.ret = TRUE
        /\ lastReturn.message # ""
        /\ errorMessage = lastReturn.message

\* C13 (as claimed): for every path and segment list, addContour(segs,
\* closed = true); close(); removeContour(i), with i the index of the added
\* contour, leaves the contours, segments, closed flags and current contour
\* index as they were.
C13_AddCloseRemoveRoundTrip_AsClaimed ==
    \A segs \in SegmentLists :
        LET p == paths["path"]
            i == Len(p.contours)
            p1 == PathAddContour(p, segs, TRUE).path
            p2 == PathClose(p1).path
            p3 == PathRemoveContour(p2, i).path
        IN  PathContents(p3) = PathContents(p)

\* C14 (as claimed): after setContour(i, segs, closed) contour i holds segs,
\* when contour i existed and when i is beyond the existing contours.
C14_SetContourThenRead_AsClaimed ==
    \A ci \in 0..MaxContours, segs \in SegmentLists, bClosed \in BOOLEAN :
        LET p == PathSetContour(paths["path"], ci, segs, bClosed).path
        IN  /\ ci < Len(p.contours)
            /\ p.contours[ci + 1].segments = segs

\* C14: after setContour(i, segs, closed) on a path of n contours, segs are
\* the segments of contour i when i < n, and of a new last contour, of index
\* n, when i >= n; the other contours keep their segments.
C14_SetContourThenRead ==
    \A ci \in 0..MaxContours, segs \in SegmentLists, bClosed \in BOOLEAN :
        LET before == paths["path"]
            n == Len(before.contours)
            at == IF ci < n THEN ci ELSE n
            p == PathSetContour(before, ci, segs, bClosed).path
        IN  /\ Len(p.contours) = (IF ci < n THEN n ELSE n + 1)
            /\ p.contours[at + 1].segments = segs
            /\ \A k \in 1..n : k # at + 1 => p.contours[k].segments = before.contours[k].segments

\* C14 witness: setContour replaced the two segments of the first of two
\* contours by one.
C14_Witness ==
    /\ lastReturn.call = "tpPathSetContour"
    /\ lastReturn.contour = 0
    /\ Len(paths["path"].contours) = 2
    /\ Len(paths["path"].contours[1].segments) = 1
    /\ paths["path"].contours[1].segments[1] \in InputSegments
    /\ Len(paths["path"].contours[2].segments) = 2

\* C20 (as claimed): every setTransform and every resetTransform increases
\* the transform ID, and every setProjection increases the projection ID.
C20_EverySetIncreasesID_AsClaimed ==
    [][/\ lastReturn'.call \in {"tpSetTransform", "tpResetTransform"} =>
              transformID' > transformID
       /\ lastReturn'.call = "tpSetProjection" => projectionID' > projectionID]_vars

\* C20: setTransform with a transform that differs from the current one and
\* every resetTransform increase the transform ID by one; setTransform with
\* the current transform leaves the ID as it is; every setProjection
\* increases the projection ID by one.
C20_SetIncreasesID ==
    [][/\ lastReturn'.call = "tpSetTransform" =>
              transformID' = (IF transform' # transform THEN transformID + 1 ELSE transformID)
       /\ lastReturn'.call = "tpResetTransform" => transformID' = transformID + 1
       /\ lastReturn'.call = "tpSetProjection" => projectionID' = projectionID + 1
       /\ lastReturn'.call \in {"tpSetTransform", "tpResetTransform"} =>
              projectionID' = projectionID
       /\ lastReturn'.call = "tpSetProjection" => transformID' = transformID]_vars

\* C20 witness: setTransform took a new transform after a reset and two
\* setProjection calls.
C20_Witness ==
    /\ lastReturn.call = "tpSetTransform"
    /\ transform = 2
    /\ transformID = 2
    /\ projectionID = 2

\* The cache the last draw or cache call built: the path's internal cache
\* for tpDrawPath, the user's cache for tpCachePath.
BuiltCache ==
    IF lastReturn.call = "tpDrawPath" THEN paths["path"].renderCache ELSE userCache

\* The transform a build under style puts into the vertices.
BakedTransform(style) == IF style.scaleStroke THEN NoTransform ELSE transform

\* C18 (as claimed): in the geometry built for a path, a contour has at least
\* two fill vertices exactly when it has at least two segments, and a contour
\* of fewer than two segments has no fill and no stroke geometry.
C18_FewSegmentsNoGeometry_AsClaimed ==
    (lastReturn.call \in {"tpDrawPath", "tpCachePath"} /\ paths["path"].contours # <<>>) =>
        /\ Len(BuiltCache.contours) = Len(paths["path"].contours)
        /\ \A i \in 1..Len(paths["path"].contours) :
              LET segments == paths["path"].contours[i].segments
                  rc == BuiltCache.contours[i]
              IN  /\ Len(rc.fillVertices) >= 2 <=> Len(segments) >= 2
                  /\ Len(segments) < 2 => rc.fillVertices = <<>> /\ rc.strokeAlong = <<>>

\* C19 (as claimed): tpCachePath builds the whole cache anew: every contour
\* of the cache is the flattening of the path's contour as it is now, under
\* the style and the transform of the call, and its stroke is made along
\* that flattening.
C19_CachePathFullRebuild_AsClaimed ==
    (lastReturn.call = "tpCachePath" /\ paths["path"].contours # <<>>) =>
        /\ Len(userCache.contours) = Len(paths["path"].contours)
        /\ \A i \in 1..Len(paths["path"].contours) :
              LET flat == FlattenContour(paths["path"].contours[i],
                                         BakedTransform(userCache.style))
              IN  /\ userCache.contours[i].fillVertices = flat
                  /\ userCache.contours[i].strokeAlong =
                         (IF StyleHasStroke(userCache.style) THEN StrokeGeometry(flat)
                          ELSE <<>>)

\* The calls that modify the segments of a contour.
ModifyingCalls ==
    {"tpPathAddSegment", "tpPathAddSegments", "tpPathLineTo", "tpPathCubicCurveTo",
     "tpPathQuadraticCurveTo", "tpPathArcTo", "tpPathClose", "tpPathSetContour",
     "tpPathRemoveSegment", "tpPathRemoveSegments"}

\* The last call did what it was asked: it returned no error and wrote no
\* error message.
Succeeded(ret) == ret.ret = FALSE /\ ret.message = ""

\* C15: every call that modifies a contour (add segment, lineTo, the curve
\* builders, close, set contour, remove segment and segments) leaves the
\* contour it worked on dirty and the path geometry dirty.
C15_ModifyingMarksDirty ==
    [][(lastReturn'.call \in ModifyingCalls /\ Succeeded(lastReturn')) =>
          /\ paths'["path"].bPathGeometryDirty
          /\ lastReturn'.contour + 1 \in 1..Len(paths'["path"].contours)
          /\ paths'["path"].contours[lastReturn'.contour + 1].bDirty]_vars

\* C15 witness: a segment was removed from a contour of a path that a draw
\* had left clean, and the contour and the path are dirty again.
C15_Witness ==
    /\ lastReturn.call = "tpPathRemoveSegment"
    /\ ~paths["path"].renderCache.null
    /\ Len(paths["path"].contours) = 2
    /\ paths["path"].contours[1].bDirty
    /\ ~paths["path"].contours[2].bDirty
    /\ paths["path"].bPathGeometryDirty

\* C16 (as claimed): a clone holds copies of all the contours of its
\* original, and a later call on the clone leaves the original as it was,
\* and a call on the original leaves the clone as it was.
C16_CloneIsIndependent_AsClaimed ==
    [][/\ lastReturn'.call = "tpPathClone" =>
              /\ PathContents(paths'["clone"]) = PathContents(paths["path"])
              /\ paths'["path"] = paths["path"]
       /\ (lastReturn'.call # "tpPathClone" /\ lastReturn'.path = "clone") =>
              paths'["path"] = paths["path"]
       /\ (lastReturn'.path = "path" /\ paths["clone"] # NoPath) =>
              paths'["clone"] = paths["clone"]]_vars

\* C17 (as claimed): after the finalization of a gradient that had at least
\* one stop, its stops have distinct offsets in ascending order, the first is
\* at 0 and the last at 1, and a stop at 0 or at 1 that the gradient did not
\* have copies the color of the stop next to it, its first or last stop.
C17_FinalizedStops_AsClaimed ==
    (lastReturn.call = "_tpGLFinalizeColorStops" /\ finalizedFrom # <<>>) =>
        LET n == Len(stops)
            given(stop) == \E k \in 1..Len(finalizedFrom) : finalizedFrom[k] = stop
        IN  /\ n >= 1
            /\ \A i \in 1..n, j \in 1..n : i < j => stops[i].offset < stops[j].offset
            /\ stops[1].offset = 0
            /\ stops[n].offset = OffsetOne
            /\ \A i \in 1..n :
                  \/ given(stops[i])
                  \/ /\ i = 1
                     /\ n >= 2 /\ given(stops[2]) /\ stops[1].color = stops[2].color
                  \/ /\ i = n
                     /\ n >= 2 /\ given(stops[n - 1]) /\ stops[n].color = stops[n - 1].color

C27_SetContourSetsClosed_AsClaimed ==
    \A ci \in 0..(Len(paths["path"].contours) - 1), segs \in SegmentLists,
       bClosed \in BOOLEAN :
        PathSetContour(paths["path"], ci, segs, bClosed).path.contours[ci + 1].bIsClosed
            = bClosed

\* Every contour of the path p is dirty.
AllContoursDirty(p) == \A i \in 1..Len(p.contours) : p.contours[i].bDirty

\* The path's transform marks differ from the context's: the transform
\* changed since the path was last drawn.
TransformChanged(p) == p.lastDrawContext # "ctx" \/ p.lastTransformID # transformID

StrokeOnlyDraw ==
    LET p == paths["path"]
        d == InternalCacheDirt(p, paths'["path"].renderCache.style)
    IN  /\ lastReturn'.call = "tpDrawPath"
        /\ ~p.renderCache.null
        /\ p.contours # <<>>
        /\ ~(\E i \in 1..Len(p.contours) : p.contours[i].bDirty)
        /\ ~d.geometry /\ d.stroke /\ ~d.transform

\* The fill vertices a cache's contour i names in the geometry array.
FillRun(cache, i) ==
    ArrayRead(cache.geometryCache, cache.geometryCache,
              cache.contours[i].fillVertexOffset, cache.contours[i].fillVertexCount)

\* C24 (as claimed): a draw that finds only the stroke-affecting style
\* changed leaves the cached fill vertices, the joint flags and every
\* contour's fill offset and count as they were.
C24_StrokeOnlyKeepsFill_AsClaimed ==
    [][StrokeOnlyDraw =>
          LET old == paths["path"].renderCache
              new == paths'["path"].renderCache
          IN  /\ new.jointCache = old.jointCache
              /\ Len(new.contours) = Len(old.contours)
              /\ \A i \in 1..Len(old.contours) :
                    /\ new.contours[i].fillVertexOffset = old.contours[i].fillVertexOffset
                    /\ new.contours[i].fillVertexCount = old.contours[i].fillVertexCount
                    /\ new.contours[i].fillVertexOffset + new.contours[i].fillVertexCount
                           <= Len(new.geometryCache)
                    /\ FillRun(new, i) = FillRun(old, i)]_vars

\* The caches built by the program: the path's internal cache and the
\* free-standing cache, once they exist and hold geometry.
BuiltCaches ==
    {cache \in {paths["path"].renderCache, userCache} :
        ~cache.null /\ cache.geometryCache # <<>>}

\* C30 (as claimed): after _tpGLRenderCacheCopyTo(from, to) every field of
\* the destination equals the source's, and a draw of the copy draws the
\* stroke range a draw of the source draws.
C30_CopyEqualsSource_AsClaimed ==
    \A from \in BuiltCaches :
        LET to == RenderCacheCopyGeometry(from, NewCache)
        IN  /\ to = from
            /\ StrokeDrawRange(to) = StrokeDrawRange(from)

\* C28: a tpCachePath into the free-standing cache leaves every contour's
\* dirty flag as it is; no call but tpDrawPath turns a dirty flag off (a
\* removal of a contour aside, which moves the flags with the contours); and
\* a tpDrawPath of a path with a dirty contour flattens that contour anew
\* into the path's internal cache and turns its flag off.
C28_DirtyClearedOnlyByInternalRebuild ==
    [][LET p == paths["path"]
           q == paths'["path"]
       IN  /\ lastReturn'.call = "tpCachePath" =>
                 /\ Len(q.contours) = Len(p.contours)
                 /\ \A i \in 1..Len(p.contours) : q.contours[i].bDirty = p.contours[i].bDirty
           /\ (/\ lastReturn'.call \notin {"tpDrawPath", "tpPathRemoveContour"}
               /\ Len(q.contours) >= Len(p.contours)) =>
                 \A i \in 1..Len(p.contours) : p.contours[i].bDirty => q.contours[i].bDirty
           /\ lastReturn'.call = "tpDrawPath" =>
                 \A i \in 1..Len(p.contours) :
                    p.contours[i].bDirty =>
                       /\ ~q.contours[i].bDirty
                       /\ ~q.renderCache.null
                       /\ i <= Len(q.renderCache.contours)
                       /\ Positions(FillRun(q.renderCache, i))
                              = FlattenContour(p.contours[i],
                                               BakedTransform(q.renderCache.style))]_vars

\* C28 witness: a path that was drawn had a contour modified and was then
\* cached into the free-standing cache, which holds the contour's new
\* flattening, and the contour is still dirty.
C28_Witness ==
    LET p == paths["path"]
    IN  /\ lastReturn.call = "tpCachePath"
        /\ ~p.renderCache.null
        /\ Len(p.contours) = 1 /\ Len(userCache.contours) = 1
        /\ p.contours[1].bDirty
        /\ Len(p.contours[1].segments) >= 2
        /\ Positions(FillRun(userCache, 1))
               = FlattenContour(p.contours[1], BakedTransform(userCache.style))
        /\ Positions(FillRun(p.renderCache, 1)) # Positions(FillRun(userCache, 1))

\* C25 (as claimed): flattening a cubic keeps stackIndex within the stack of
\* TARP_MAX_CURVE_SUBDIVISIONS curves, emits a curve it reaches with the
\* stack full without bisecting it, and its loop ends for every curve.
C25_FlattenBoundedAndTerminates_AsClaimed ==
    /\ [](flatten.stackIndex < TARP_MAX_CURVE_SUBDIVISIONS
          /\ Len(flatten.stack) <= TARP_MAX_CURVE_SUBDIVISIONS)
    /\ [][flatten.stackIndex = TARP_MAX_CURVE_SUBDIVISIONS - 1 =>
             /\ flatten'.stackIndex = flatten.stackIndex - 1
             /\ flatten'.emitted = flatten.stack[flatten.stackIndex + 1]]_vars
    /\ (flatten.stackIndex >= 0) ~> (flatten.stackIndex < 0)

\* The dasher strokes, or has stroked, the open line of length 100 with the
\* dash array [10, 5] and no dash offset.
DashedLineOfTheExample ==
    /\ dasher.segments = <<100>> /\ ~dasher.bIsClosed
    /\ dasher.dashArray = <<10, 5>> /\ dasher.styleDashOffset = 0

\* The pieces of some kinds among the geometry the dasher made.
PiecesOf(kinds) == SelectSeq(dasher.out, LAMBDA e : e.what \in kinds)

\* C21: stroking the open line from 0 to 100 with the dash array [10, 5] and
\* dash offset 0 gives exactly 7 dashes, over [0,10], [15,25], ..., [90,100],
\* each between a start cap and an end cap, the first cap at 0 and the last
\* at 100, and no join of any kind.
C21_DashedLineSevenDashes ==
    (DashedLineOfTheExample /\ dasher.pc = "done") =>
        /\ PiecesOf({"quad"}) =
               [k \in 1..7 |-> Piece("quad", 15 * (k - 1), 15 * (k - 1) + 10)]
        /\ dasher.out =
               [n \in 1..21 |->
                   LET k == (n - 1) \div 3
                   IN  IF n % 3 = 1 THEN Piece("startCap", 15 * k, 15 * k)
                       ELSE IF n % 3 = 2 THEN Piece("quad", 15 * k, 15 * k + 10)
                       ELSE Piece("endCap", 15 * k + 10, 15 * k + 10)]
        /\ Head(dasher.out) = Piece("startCap", 0, 0)
        /\ dasher.out[Len(dasher.out)] = Piece("endCap", 100, 100)
        /\ PiecesOf({"join", "bevel", "closingJoin"}) = <<>>

\* C21 witness: the line of the example was stroked to its end, and seven
\* dashes were made.
C21_Witness ==
    /\ DashedLineOfTheExample
    /\ dasher.pc = "done"
    /\ Len(PiecesOf({"quad"})) = 7

\* C29 (as claimed): for every dash array with dashCount > 0 and every
\* polyline the dashed-stroke traversal ends, and dashIndex is within
\* [0, dashCount) at every step of it.
C29_DashTraversalTerminates_AsClaimed ==
    /\ [](dasher.pc # "idle" => dasher.dashIndex \in 0..(Len(dasher.dashArray) - 1))
    /\ (dasher.pc \in {"segment", "dash"}) ~> (dasher.pc = "done")

\* C26: whenever the clipping stack holds d > 0 caches, after any clipping
\* or drawing call, the clip plane other than currentClipStencilPlane (the
\* plane draws test against) has its bit clear exactly at the pixels inside
\* the masks of all d caches on the stack, after a swap as after a rebuild.
C26_TestedPlaneIsIntersection ==
    (clippingStackDepth > 0 /\ ~stackOverrun) =>
        stencil[PlaneOtherThan(currentClipStencilPlane)] =
            Pixels \ InsideAllClips(clippingStack, renderCaches, clippingRenderCaches)

\* C26 witness: an endClipping took the rebuild branch and left two clips
\* of different caches, whose masks have one pixel in common.
C26_Witness ==
    /\ LastCall = "tpEndClipping"
    /\ ~glTrace[1].canSwap
    /\ clippingStackDepth = 2
    /\ clippingStack[1] # clippingStack[2]
    /\ Cardinality(InsideAllClips(clippingStack, renderCaches, clippingRenderCaches)) = 1
    /\ stencil[PlaneOtherThan(currentClipStencilPlane)] # {}

====
